---- MODULE Spec2Model ----
(***************************************************************************)
(* PSGC-API: the code grammar (normalizeCode), the entity classifiers, the *)
(* cleaning pass (cleanData), the merge (fixMissingRecords), the Excel     *)
(* parser (parseExcelToJSON) and the import into the relational store      *)
(* (importData), modelled from the scripts under src/src/scripts and the   *)
(* fetch/database sources under src/unnamed.                               *)
(*                                                                         *)
(* Strings are sequences of one-character strings.  A JavaScript value is  *)
(* a record [k, s, n]: k is "undef", "null", "str" or "num", s the         *)
(* characters of a string, n the value of a number.  In records of a batch *)
(* an absent field and the empty string are both the empty sequence (the   *)
(* code only ever tests such fields for truthiness).  Names are sequences  *)
(* of lower-case words separated by single blanks, types are one word.     *)
(***************************************************************************)
EXTENDS Integers, Sequences, FiniteSets, TLC

VARIABLES
    raw,        \* grammar: the raw value handed to the normalizers
    norm,       \* grammar: result of every normalizeCode on raw
    again,      \* grammar: result of every normalizeCode on its own result
    item,       \* classifiers: the record being classified
    level,      \* classifiers: result of every classifier on item
    out,        \* classifiers: the record each stage emits for item
    endpoint,   \* classifiers: the list convertToOurFormat is converting
    ancestors,  \* classifiers: the codes derived upwards from item's code
    batch,      \* batch tools: the batch (cleanData input, source file)
    baseline,   \* batch tools: the complete (baseline) file
    cleanOut,   \* batch tools: what cleanData(batch) returned and reported
    fixOut,     \* batch tools: what fixMissingRecords(baseline, batch) built
    recleanOut, \* batch tools: what cleanData returned for its own output
    swapOut,    \* batch tools: what fixMissingRecords(batch, baseline) built
    db,         \* import: the tables of the database
    imported,   \* import: the batch of the latest importData run
    skipped,    \* import: records the latest run skipped for a missing province
    failed,     \* import: records whose insert the latest run saw rejected
    runs,       \* import: number of importData runs so far
    crashed,    \* import: whether the latest importData run threw
    counted,    \* validation: the level and the count handed to validateCount
    report,     \* validation: what validateCount reported
    request,    \* API: the request the server is handed
    response,   \* API: the status and the body the handler answers
    matching,   \* barangay lists: rows the list query selects before LIMIT
    listing,    \* barangay lists: the request and the number of rows returned
    hits,       \* rate limiter: requests counted per client address in the window
    served,     \* rate limiter: requests under /api/ served per address in the window
    answered    \* rate limiter: the latest request and the status it was answered

grammarVars == <<raw, norm, again>>

classifyVars == <<item, level, out, endpoint, ancestors>>

batchVars == <<batch, baseline, cleanOut, fixOut, recleanOut, swapOut>>

importVars == <<db, imported, skipped, failed, runs, crashed>>

importLog == <<imported, skipped, failed, runs, crashed>>

validateVars == <<counted, report>>

apiVars == <<request, response>>

listVars == <<matching, listing>>

rateVars == <<hits, served, answered>>

vars == <<raw, norm, again, item, level, out, endpoint, ancestors,
          batch, baseline, cleanOut, fixOut, recleanOut, swapOut,
          db, imported, skipped, failed, runs, crashed, counted, report,
          request, response, matching, listing, hits, served, answered>>

----------------------------------------------------------------------------
(* Bounds *)

MaxHead == 2        \* free characters in front of a fixed tail of a raw code
MaxDigit == 1       \* digits 0..MaxDigit are used in enumerated 9-digit codes
MaxBatch == 2       \* records in a batch
MaxBaseline == 1    \* records in the complete file of a merge
MaxImport == 2      \* records in the file of one importData run
MaxRuns == 2        \* importData runs on one database
MaxActual == 20     \* counts 0..MaxActual are handed to validateCount
MaxRows == 3        \* row counts 0..MaxRows are handed to the list queries
MaxOver == 2        \* requests an address sends beyond the limiter's max

----------------------------------------------------------------------------
(* Program constants *)

CodeLen == 9

----------------------------------------------------------------------------
(* JavaScript values and string primitives *)

Digits == {"0", "1", "2", "3", "4", "5", "6", "7", "8", "9"}

Whitespace == {" "}

Undefined == [k |-> "undef", s |-> <<>>, n |-> 0]

Null == [k |-> "null", s |-> <<>>, n |-> 0]

Str(s) == [k |-> "str", s |-> s, n |-> 0]

Num(n) == [k |-> "num", s |-> <<>>, n |-> n]

DigitChar(d) ==
    CASE d = 0 -> "0" [] d = 1 -> "1" [] d = 2 -> "2" [] d = 3 -> "3"
      [] d = 4 -> "4" [] d = 5 -> "5" [] d = 6 -> "6" [] d = 7 -> "7"
      [] d = 8 -> "8" [] d = 9 -> "9"

RECURSIVE NatToStr(_)
NatToStr(n) ==
    IF n < 10 THEN <<DigitChar(n)>>
    ELSE NatToStr(n \div 10) \o <<DigitChar(n % 10)>>

\* !v
Falsy(v) ==
    \/ v.k \in {"undef", "null"}
    \/ v.k = "str" /\ v.s = <<>>
    \/ v.k = "num" /\ v.n = 0

\* String(v)
JsString(v) ==
    CASE v.k = "undef" -> <<"u", "n", "d", "e", "f", "i", "n", "e", "d">>
      [] v.k = "null" -> <<"n", "u", "l", "l">>
      [] v.k = "str" -> v.s
      [] v.k = "num" -> IF v.n < 0 THEN <<"-">> \o NatToStr(-v.n)
                                   ELSE NatToStr(v.n)

RECURSIVE trimStart(_)
trimStart(s) ==
    IF s # <<>> /\ Head(s) \in Whitespace THEN trimStart(Tail(s)) ELSE s

RECURSIVE trimEnd(_)
trimEnd(s) ==
    IF s # <<>> /\ s[Len(s)] \in Whitespace
    THEN trimEnd(SubSeq(s, 1, Len(s) - 1)) ELSE s

trim(s) == trimEnd(trimStart(s))

RECURSIVE padStart(_, _, _)
padStart(s, n, c) == IF Len(s) >= n THEN s ELSE padStart(<<c>> \o s, n, c)

\* s.substring(a, b) for 0 <= a <= b
substring(s, a, b) ==
    SubSeq(s, (IF a > Len(s) THEN Len(s) ELSE a) + 1,
              IF b > Len(s) THEN Len(s) ELSE b)

\* s.replace(/\D/g, '')
stripNonDigits(s) == SelectSeq(s, LAMBDA c : c \in Digits)

startsWith(s, c) == s # <<>> /\ Head(s) = c

\* s.padStart(9, '0').substring(0, 9)
padTruncate(s) == substring(padStart(s, CodeLen, "0"), 0, CodeLen)

----------------------------------------------------------------------------
(* The normalizeCode of each script *)

\* importPSGC.js (both copies) and validatePSGC.js: trim, pad, truncate
importPSGC_normalizeCode(code) ==
    IF Falsy(code) THEN Null
    ELSE LET codeStr == trim(JsString(code))
         IN  IF Len(codeStr) = 0 THEN Null ELSE Str(padTruncate(codeStr))

validatePSGC_normalizeCode(code) ==
    IF Falsy(code) THEN Null
    ELSE LET codeStr == trim(JsString(code))
         IN  IF Len(codeStr) = 0 THEN Null ELSE Str(padTruncate(codeStr))

\* cleanPSGCData.js: trim, strip non-digits, pad, truncate
cleanPSGCData_normalizeCode(code) ==
    IF Falsy(code) THEN Null
    ELSE LET codeStr == stripNonDigits(trim(JsString(code)))
         IN  IF Len(codeStr) = 0 THEN Null ELSE Str(padTruncate(codeStr))

\* fixMissingRecords.js: pad, truncate
fixMissingRecords_normalizeCode(code) ==
    IF Falsy(code) THEN Null ELSE Str(padTruncate(JsString(code)))

\* fetchFromPSGCCloud.js: no null test; a 10-character string starting with
\* 0 loses that 0
fetchFromPSGCCloud_normalizeCode(code) ==
    LET codeStr == JsString(code)
    IN  IF Len(codeStr) = 10 /\ startsWith(codeStr, "0")
        THEN Str(substring(codeStr, 1, Len(codeStr)))
        ELSE Str(padTruncate(codeStr))

\* downloadFromPSA.js: as fetchFromPSGCCloud.js after a null test
downloadFromPSA_normalizeCode(code) ==
    IF Falsy(code) THEN Null
    ELSE LET codeStr == JsString(code)
         IN  IF Len(codeStr) = 10 /\ startsWith(codeStr, "0")
             THEN Str(substring(codeStr, 1, Len(codeStr)))
             ELSE Str(padTruncate(codeStr))

\* downloadFromDILG.js: strip non-digits, pad, truncate (numbers are floored
\* first; the numbers of the model are integers)
downloadFromDILG_normalizeCode(code) ==
    IF Falsy(code) THEN Null
    ELSE Str(padTruncate(stripNonDigits(JsString(code))))

Normalizers == {"importPSGC", "validatePSGC", "cleanPSGCData",
                "fixMissingRecords", "fetchFromPSGCCloud",
                "downloadFromPSA", "downloadFromDILG"}

normalizeAll(code) ==
    [f \in Normalizers |->
        CASE f = "importPSGC" -> importPSGC_normalizeCode(code)
          [] f = "validatePSGC" -> validatePSGC_normalizeCode(code)
          [] f = "cleanPSGCData" -> cleanPSGCData_normalizeCode(code)
          [] f = "fixMissingRecords" -> fixMissingRecords_normalizeCode(code)
          [] f = "fetchFromPSGCCloud" -> fetchFromPSGCCloud_normalizeCode(code)
          [] f = "downloadFromPSA" -> downloadFromPSA_normalizeCode(code)
          [] f = "downloadFromDILG" -> downloadFromDILG_normalizeCode(code)]

----------------------------------------------------------------------------
(* Records of a batch *)

\* field 'City Class' is CityClass, '10-digit PSGC' is psgc10 and
\* 'Correspondence Code' is CorrespondenceCode; the other aliases the scripts
\* read (Code, CODE, Name, cityClass, ...) are absent from the model's inputs;
\* malformed is "null" for an array element that is null instead of an
\* object and "name" for a record whose name is a number, "" otherwise
MkItem(code, name, type, cityClass) ==
    [code |-> code, name |-> name, type |-> type, malformed |-> "",
     city_class |-> cityClass, CityClass |-> <<>>,
     psgc10 |-> <<>>, CorrespondenceCode |-> <<>>,
     city_code |-> <<>>, municipality_code |-> <<>>,
     province_code |-> <<>>, region_code |-> <<>>]

\* a field of a record as a JavaScript value
Field(s) == IF s = <<>> THEN Undefined ELSE Str(s)

\* a normalizeCode result as a field: null is the empty sequence
Code(v) == IF v.k = "str" THEN v.s ELSE <<>>

\* s.toLowerCase() of a type, a level word or a search type
toLowerCase(t) ==
    CASE t = "City" -> "city"
      [] t = "Municipality" -> "municipality"
      [] t = "Mun" -> "mun"
      [] t = "Region" -> "region"
      [] t = "Province" -> "province"
      [] t = "Barangay" -> "barangay"
      [] t = "Regions" -> "regions"
      [] t = "ALL" -> "all"
      [] OTHER -> t

\* t.includes(w), t a lower-case type or level word
typeIncludes(t, w) == t = w

\* level.substring(0, 3)
levelAbbr(t) ==
    CASE t = "city" -> "cit"
      [] t = "municipality" -> "mun"
      [] t = "region" -> "reg"
      [] t = "province" -> "pro"
      [] t = "barangay" -> "bar"
      [] OTHER -> t

\* name.includes(pat): pat is a sequence of whole words
nameIncludes(name, pat) ==
    \E i \in 1..(Len(name) - Len(pat) + 1) :
        SubSeq(name, i, i + Len(pat) - 1) = pat

\* name.endsWith(' ' + w)
nameEndsWith(name, w) == Len(name) >= 2 /\ name[Len(name)] = w

----------------------------------------------------------------------------
(* Code patterns *)

allZero(s) == \A i \in 1..Len(s) : s[i] = "0"

allDigits(s) == \A i \in 1..Len(s) : s[i] \in Digits

\* /^\d{n}0...0$/ on a string, n + zeros = 9
matchPrefixZeros(code, n) ==
    /\ Len(code) = CodeLen
    /\ allDigits(SubSeq(code, 1, n))
    /\ allZero(SubSeq(code, n + 1, CodeLen))

\* /^\d{2}0000000$/
isRegionPattern(code) == matchPrefixZeros(code, 2)

\* /^\d{4}00000$/
isProvincePattern(code) == matchPrefixZeros(code, 4)

\* /^\d{5}0000$/
isDistrictPattern(code) == matchPrefixZeros(code, 5)

\* /^\d{6}000$/
isCityMuniPattern(code) == matchPrefixZeros(code, 6)

\* /^\d{9}$/ and not /000$/
isBarangayPattern(code) ==
    /\ Len(code) = CodeLen /\ allDigits(code)
    /\ ~allZero(SubSeq(code, 7, 9))

ZeroCode == <<"0", "0", "0", "0", "0", "0", "0", "0", "0">>

----------------------------------------------------------------------------
(* Classifiers *)

\* cleanPSGCData.js classifyEntity(code, name, type, row)
cleanPSGCData_classifyEntity(codeIn, name, typeIn, row) ==
    LET code == Code(cleanPSGCData_normalizeCode(Field(codeIn)))
        type == toLowerCase(typeIn)
        isCity ==
            \/ typeIncludes(type, "city")
            \/ nameIncludes(name, <<"city", "of">>)
            \/ nameEndsWith(name, "city")
            \/ row.city_class # <<>>
            \/ row.CityClass # <<>>
            \/ /\ nameIncludes(name, <<"city">>)
               /\ \/ nameIncludes(name, <<"highly", "urbanized">>)
                  \/ nameIncludes(name, <<"independent", "component">>)
                  \/ nameIncludes(name, <<"component", "city">>)
    IN  IF code = <<>> \/ code = ZeroCode THEN "null"
        ELSE IF isRegionPattern(code) THEN "region"
        ELSE IF isProvincePattern(code) THEN "province"
        ELSE IF isDistrictPattern(code) THEN "district"
        ELSE IF isCityMuniPattern(code)
             THEN (IF isCity THEN "city" ELSE "municipality")
        ELSE IF isBarangayPattern(code) THEN "barangay"
        ELSE "null"

\* fixMissingRecords.js classifyEntity(item)
fixMissingRecords_classifyEntity(it) ==
    LET code == Code(fixMissingRecords_normalizeCode(Field(it.code)))
        name == it.name
        type == toLowerCase(it.type)
        isExplicitMunicipality ==
            \/ nameIncludes(name, <<"municipality", "of">>)
            \/ /\ nameIncludes(name, <<"municipality">>)
               /\ ~nameIncludes(name, <<"city">>)
        isCity ==
            /\ ~isExplicitMunicipality
            /\ \/ type = "city"
               \/ nameIncludes(name, <<"city", "of">>)
               \/ nameEndsWith(name, "city")
               \/ nameIncludes(name, <<"city">>)
               \/ it.city_class # <<>>
    IN  IF code = <<>> THEN "null"
        ELSE IF isRegionPattern(code) THEN "region"
        ELSE IF isProvincePattern(code) THEN "province"
        ELSE IF isCityMuniPattern(code)
             THEN (IF isCity THEN "city" ELSE "municipality")
        ELSE IF isBarangayPattern(code) THEN "barangay"
        ELSE "null"

\* validatePSGC.js validateDataFile: the pattern chain applied to one item;
\* "skip" is the early return, "unknown" the final else
validateDataFile_classify(it) ==
    LET code == Code(validatePSGC_normalizeCode(Field(it.code)))
        name == it.name
        type == it.type
        isCity ==
            \/ type = "City"
            \/ nameIncludes(name, <<"city", "of">>)
            \/ nameEndsWith(name, "city")
            \/ nameIncludes(name, <<"city">>)
    IN  IF code = <<>> \/ code = ZeroCode THEN "skip"
        ELSE IF isRegionPattern(code) THEN "region"
        ELSE IF isProvincePattern(code) THEN "province"
        ELSE IF isDistrictPattern(code) THEN "district"
        ELSE IF isCityMuniPattern(code)
             THEN (IF isCity THEN "city" ELSE "municipality")
        ELSE IF isBarangayPattern(code) THEN "barangay"
        ELSE "unknown"

\* diagnoseDiscrepancies.js normalizeCode: pad, truncate (no trim)
diagnose_normalizeCode(code) ==
    IF Falsy(code) THEN Null ELSE Str(padTruncate(JsString(code)))

\* diagnoseDiscrepancies.js diagnose: the pattern chain applied to one item
\* of the data file; "city" in the name counts only next to a city class
diagnose_classify(it) ==
    LET code == Code(diagnose_normalizeCode(Field(it.code)))
        name == it.name
        type == it.type
        isCity ==
            \/ type = "City"
            \/ nameIncludes(name, <<"city", "of">>)
            \/ nameEndsWith(name, "city")
            \/ (/\ nameIncludes(name, <<"city">>)
                /\ \/ nameIncludes(name, <<"highly", "urbanized">>)
                   \/ nameIncludes(name, <<"independent", "component">>)
                   \/ nameIncludes(name, <<"component", "city">>))
    IN  IF code = <<>> \/ code = ZeroCode THEN "skip"
        ELSE IF isRegionPattern(code) THEN "region"
        ELSE IF isProvincePattern(code) THEN "province"
        ELSE IF isDistrictPattern(code) THEN "district"
        ELSE IF isCityMuniPattern(code)
             THEN (IF isCity THEN "city" ELSE "municipality")
        ELSE IF isBarangayPattern(code) THEN "barangay"
        ELSE "unknown"

----------------------------------------------------------------------------
(* Records emitted by a stage: kind is the list the record was pushed to *)

Emit(kind, code, name, it) ==
    [kind |-> kind, code |-> code, name |-> name,
     city_code |-> it.city_code, municipality_code |-> it.municipality_code,
     province_code |-> it.province_code, region_code |-> it.region_code,
     district_code |-> it.district_code, city_class |-> it.city_class]

NoParents ==
    [city_code |-> <<>>, municipality_code |-> <<>>, province_code |-> <<>>,
     region_code |-> <<>>, district_code |-> <<>>, city_class |-> <<>>]

\* code.substring(0, 2) + '0000000'
regionOf(code) == substring(code, 0, 2) \o <<"0", "0", "0", "0", "0", "0", "0">>

\* the province code cut after five digits instead of four
provinceOf_fiveDigits(code) == substring(code, 0, 5) \o <<"0", "0", "0", "0">>

\* code.substring(0, 4) + '00000'
provinceOf(code) == substring(code, 0, 4) \o <<"0", "0", "0", "0", "0">>

\* code.substring(0, 6) + '000'
cityMuniOf(code) == substring(code, 0, 6) \o <<"0", "0", "0">>

\* importPSGC.js extractRegionCode
extractRegionCode(code) ==
    LET normalized == Code(importPSGC_normalizeCode(Field(code)))
    IN  IF normalized = <<>> THEN <<>> ELSE regionOf(normalized)

\* importPSGC.js extractProvinceCode
extractProvinceCode(code) ==
    LET normalized == Code(importPSGC_normalizeCode(Field(code)))
    IN  IF normalized = <<>> THEN <<>> ELSE provinceOf(normalized)

\* the codes importPSGC.js derives going up from a code: the city or
\* municipality of a barangay (insertBarangay), the province of that, the
\* region of that, and the province and region taken from the code directly
deriveAncestors(code) ==
    LET cityMuni == cityMuniOf(code)
        province == extractProvinceCode(cityMuni)
    IN  [cityMuni |-> cityMuni,
         province |-> province,
         region |-> extractRegionCode(province),
         provinceDirect |-> extractProvinceCode(code),
         regionDirect |-> extractRegionCode(code)]

NoAncestors ==
    [cityMuni |-> <<>>, province |-> <<>>, region |-> <<>>,
     provinceDirect |-> <<>>, regionDirect |-> <<>>]

----------------------------------------------------------------------------
(* importData, classification pass of the second (current) copy *)

\* normalizedItem of one record; kind is the list it is pushed to, "skip"
\* the early return and "none" a record no branch takes
importData_classify(it) ==
    LET code == Code(importPSGC_normalizeCode(Field(it.code)))
        type == it.type
        name == it.name
        region_code ==
            IF it.region_code = <<>> THEN extractRegionCode(code)
            ELSE Code(importPSGC_normalizeCode(Field(it.region_code)))
        province_code ==
            IF it.province_code = <<>>
            THEN (IF ~isRegionPattern(code) /\ ~isProvincePattern(code)
                  THEN extractProvinceCode(code) ELSE <<>>)
            ELSE Code(importPSGC_normalizeCode(Field(it.province_code)))
        district_code ==
            IF /\ isDistrictPattern(code) /\ ~isProvincePattern(code)
               /\ ~isRegionPattern(code)
            THEN code ELSE <<>>
        city_code ==
            IF it.city_code = <<>> THEN <<>>
            ELSE Code(importPSGC_normalizeCode(Field(it.city_code)))
        municipality_code ==
            IF it.municipality_code = <<>> THEN <<>>
            ELSE Code(importPSGC_normalizeCode(Field(it.municipality_code)))
        isCity ==
            \/ type = "City"
            \/ nameIncludes(name, <<"city", "of">>)
            \/ nameEndsWith(name, "city")
            \/ nameIncludes(name, <<"city">>)
            \/ it.city_class # <<>>
        kind ==
            IF code = <<>> \/ code = ZeroCode THEN "skip"
            ELSE IF type = "Region" \/ isRegionPattern(code) THEN "region"
            ELSE IF type = "Province" \/ isProvincePattern(code) THEN "province"
            ELSE IF isCityMuniPattern(code)
                 THEN (IF isCity THEN "city" ELSE "municipality")
            ELSE IF type = "Barangay" \/ isBarangayPattern(code) THEN "barangay"
            ELSE "none"
    IN  Emit(kind, code, name,
             [city_code |-> city_code, municipality_code |-> municipality_code,
              province_code |-> province_code, region_code |-> region_code,
              district_code |-> district_code, city_class |-> it.city_class])

\* importData, classification pass of the first copy in importPSGC.js
importDataV1_classify(it) ==
    LET code == Code(importPSGC_normalizeCode(Field(it.code)))
        type == it.type
        region_code ==
            IF it.region_code = <<>> THEN extractRegionCode(code)
            ELSE Code(importPSGC_normalizeCode(Field(it.region_code)))
        province_code ==
            IF it.province_code = <<>>
            THEN (IF Len(code) >= 6 /\ allDigits(SubSeq(code, 1, 6))
                  THEN extractProvinceCode(code) ELSE <<>>)
            ELSE Code(importPSGC_normalizeCode(Field(it.province_code)))
        city_code ==
            IF it.city_code = <<>> THEN <<>>
            ELSE Code(importPSGC_normalizeCode(Field(it.city_code)))
        municipality_code ==
            IF it.municipality_code = <<>> THEN <<>>
            ELSE Code(importPSGC_normalizeCode(Field(it.municipality_code)))
        kind ==
            IF code = <<>> \/ code = ZeroCode THEN "skip"
            ELSE IF type = "Region" \/ isRegionPattern(code) THEN "region"
            ELSE IF type = "Province" \/ isProvincePattern(code) THEN "province"
            ELSE IF \/ type = "City"
                    \/ /\ isCityMuniPattern(code)
                       /\ (city_code # <<>> \/ province_code # <<>>)
                 THEN "city"
            ELSE IF \/ type = "Municipality"
                    \/ (isCityMuniPattern(code) /\ city_code = <<>>)
                 THEN "municipality"
            ELSE IF \/ type = "Barangay"
                    \/ ~(Len(code) >= 6 /\ allZero(SubSeq(code, Len(code) - 5, Len(code))))
                 THEN "barangay"
            ELSE "none"
    IN  Emit(kind, code, it.name,
             [city_code |-> city_code, municipality_code |-> municipality_code,
              province_code |-> province_code, region_code |-> region_code,
              district_code |-> <<>>, city_class |-> it.city_class])

----------------------------------------------------------------------------
(* downloadFromDILG.js parseExcelToJSON, one row *)

parseExcelToJSON_row(row) ==
    LET codeStr ==
            IF row.CorrespondenceCode # <<>> THEN row.CorrespondenceCode
            ELSE IF row.psgc10 # <<>>
                 THEN (IF Len(row.psgc10) = 10 /\ startsWith(row.psgc10, "0")
                       THEN substring(row.psgc10, 1, Len(row.psgc10))
                       ELSE row.psgc10)
            ELSE row.code
        code == Code(downloadFromDILG_normalizeCode(Field(codeStr)))
        name == row.name
        lvl == toLowerCase(row.type)
        abbr == levelAbbr(lvl)
        isRegion ==
            isRegionPattern(code) \/ abbr = "reg" \/ typeIncludes(lvl, "region")
        isProvince ==
            isProvincePattern(code) \/ abbr = "pro" \/ typeIncludes(lvl, "province")
        isCity ==
            /\ isCityMuniPattern(code)
            /\ \/ abbr = "cit" \/ typeIncludes(lvl, "city")
               \/ nameIncludes(name, <<"city">>)
               \/ row.CityClass # <<>>
        isMunicipality ==
            /\ isCityMuniPattern(code) /\ ~isCity
            /\ (abbr = "mun" \/ typeIncludes(lvl, "municipality"))
        isBarangay ==
            isBarangayPattern(code) \/ abbr = "bgy" \/ typeIncludes(lvl, "barangay")
        derived ==
            [NoParents EXCEPT !.province_code = provinceOf(code),
                              !.region_code = regionOf(code)]
    IN  IF code = <<>> \/ name = <<>> \/ code = ZeroCode
        THEN Emit("skip", code, name, NoParents)
        ELSE IF isRegion THEN Emit("region", code, name, NoParents)
        ELSE IF isProvince
             THEN Emit("province", code, name,
                       [NoParents EXCEPT !.region_code = regionOf(code)])
        ELSE IF isCity
             THEN Emit("city", code, name,
                       [derived EXCEPT !.city_class = row.CityClass])
        ELSE IF isMunicipality THEN Emit("municipality", code, name, derived)
        ELSE IF isBarangay THEN Emit("barangay", code, name, derived)
        ELSE Emit("none", code, name, NoParents)

----------------------------------------------------------------------------
(* fetchFromPSGCCloud.js convertToOurFormat, one item of the list of type *)

\* a || b || c on fields
firstTruthy(a, b, c) == IF a # <<>> THEN a ELSE IF b # <<>> THEN b ELSE c

\* item.x ? normalizeCode(item.x) : fallback
convertToOurFormat_parent(explicit, fallback) ==
    IF explicit # <<>>
    THEN Code(fetchFromPSGCCloud_normalizeCode(Field(explicit)))
    ELSE fallback

\* kind "null" is an item the final filter removes
convertToOurFormat_item(it, type) ==
    LET code == Code(fetchFromPSGCCloud_normalizeCode(Field(it.code)))
        name == it.name
        region_code == convertToOurFormat_parent(it.region_code, regionOf(code))
    IN  IF code = <<>> \/ name = <<>> THEN Emit("null", code, name, NoParents)
        ELSE CASE type = "region" -> Emit("region", code, name, NoParents)
          [] type = "province" ->
                Emit("province", code, name,
                     [NoParents EXCEPT !.region_code = region_code])
          [] type = "city" ->
                Emit("city", code, name,
                     [NoParents EXCEPT
                        !.province_code =
                            convertToOurFormat_parent(it.province_code, <<>>),
                        !.region_code = region_code,
                        !.city_class = firstTruthy(it.city_class, it.CityClass, <<>>)])
          [] type = "municipality" ->
                Emit("municipality", code, name,
                     [NoParents EXCEPT
                        !.province_code =
                            convertToOurFormat_parent(it.province_code,
                                                      provinceOf(code)),
                        !.region_code = region_code])
          [] type = "barangay" ->
                Emit("barangay", code, name,
                     [NoParents EXCEPT
                        !.city_code =
                            convertToOurFormat_parent(it.city_code, <<>>),
                        !.municipality_code =
                            convertToOurFormat_parent(it.municipality_code, <<>>),
                        !.province_code =
                            convertToOurFormat_parent(it.province_code,
                                                      provinceOf(code)),
                        !.region_code = region_code])

----------------------------------------------------------------------------
(* cleanPSGCData.js cleanData *)

\* item.x || derived, normalized
cleanData_parent(explicit, derived) ==
    Code(cleanPSGCData_normalizeCode(
            Field(IF explicit # <<>> THEN explicit ELSE derived)))

\* what the loop body makes of one record, the duplicate test left aside:
\* kind "invalid" is a record pushed to invalid, "district" a record that
\* no branch pushes anywhere
cleanData_record(it) ==
    LET code == Code(cleanPSGCData_normalizeCode(
                        Field(firstTruthy(it.code, it.psgc10,
                                          it.CorrespondenceCode))))
        name == it.name
        kind == IF code = <<>> \/ name = <<>> THEN "invalid"
                ELSE cleanPSGCData_classifyEntity(code, name, it.type, it)
        region_code == cleanData_parent(it.region_code, regionOf(code))
        province_code == cleanData_parent(it.province_code, provinceOf(code))
        cityClass == firstTruthy(it.city_class, it.CityClass, <<>>)
    IN  CASE kind = "region" -> Emit("region", code, name, NoParents)
          [] kind = "province" ->
                Emit("province", code, name,
                     [NoParents EXCEPT !.region_code = region_code])
          [] kind = "city" ->
                Emit("city", code, name,
                     [NoParents EXCEPT !.province_code = province_code,
                                       !.region_code = region_code,
                                       !.city_class = cityClass])
          [] kind = "municipality" ->
                Emit("municipality", code, name,
                     [NoParents EXCEPT !.province_code = province_code,
                                       !.region_code = region_code])
          [] kind = "barangay" ->
                Emit("barangay", code, name,
                     [NoParents EXCEPT !.province_code = province_code,
                                       !.region_code = region_code])
          [] kind = "district" -> Emit("district", code, name, NoParents)
          [] OTHER -> Emit("invalid", code, name, NoParents)

\* the duplicate test of the loop: a code already in seen is a duplicate
cleanData_isDuplicate(seen, code) == code \in seen

\* data.forEach: st carries seen, duplicates, invalid and the pushed records
RECURSIVE cleanData_loop(_, _, _)
cleanData_loop(data, index, st) ==
    IF index > Len(data) THEN st
    ELSE LET it == data[index]
             e == cleanData_record(it)
         IN  IF it.malformed = "null"
             \* item.code throws in the try block and again in the catch
             \* block: the error leaves forEach and cleanData
             THEN [st EXCEPT !.aborted = TRUE]
             ELSE IF it.malformed = "name"
             \* name.trim throws, the catch block records the record
             THEN cleanData_loop(data, index + 1,
                    [st EXCEPT !.invalid = Append(@, [index |-> index - 1,
                                   reason |-> "TypeError"])])
             ELSE IF e.code = <<>> \/ e.name = <<>>
             THEN cleanData_loop(data, index + 1,
                    [st EXCEPT !.invalid = Append(@, [index |-> index - 1,
                                   reason |-> "Missing code or name"])])
             ELSE IF cleanData_isDuplicate(st.seen, e.code)
             THEN cleanData_loop(data, index + 1,
                    [st EXCEPT !.duplicates = Append(@, [index |-> index - 1,
                                   code |-> e.code, name |-> e.name])])
             ELSE IF e.kind = "invalid"
             THEN cleanData_loop(data, index + 1,
                    [st EXCEPT !.seen = @ \cup {e.code},
                               !.invalid = Append(@, [index |-> index - 1,
                                   reason |-> "Invalid PSGC pattern"])])
             ELSE IF e.kind = "district"
             THEN cleanData_loop(data, index + 1,
                    [st EXCEPT !.seen = @ \cup {e.code}])
             ELSE cleanData_loop(data, index + 1,
                    [st EXCEPT !.seen = @ \cup {e.code},
                               !.pushed = Append(@, e)])

ofKind(list, kind) == SelectSeq(list, LAMBDA e : e.kind = kind)

\* allData: the lists flattened in the order regions, provinces, districts
\* (never filled), cities, municipalities, barangays
cleanData_allData(pushed) ==
    ofKind(pushed, "region") \o ofKind(pushed, "province")
        \o ofKind(pushed, "city") \o ofKind(pushed, "municipality")
        \o ofKind(pushed, "barangay")

\* nothing is returned when the loop threw
cleanData_result(st) ==
    [allData |-> IF st.aborted THEN <<>> ELSE cleanData_allData(st.pushed),
     duplicates |-> st.duplicates,
     invalid |-> st.invalid,
     aborted |-> st.aborted]

\* cleanData(data)
cleanData(data) ==
    cleanData_result(
        cleanData_loop(data, 1,
            [seen |-> {}, duplicates |-> <<>>, invalid |-> <<>>,
             pushed |-> <<>>, aborted |-> FALSE]))

----------------------------------------------------------------------------
(* fixMissingRecords.js fixMissingRecords *)

fixCode(it) == Code(fixMissingRecords_normalizeCode(Field(it.code)))

\* completeMap keyed by the codes as written, not normalized
completeMapKeys_raw(completeData) ==
    {completeData[i].code : i \in 1..Len(completeData)} \ {<<>>}

\* completeMap: the normalized codes of the complete file
completeMapKeys(completeData) ==
    {fixCode(completeData[i]) : i \in 1..Len(completeData)} \ {<<>>}

\* the test that makes a source record a missing record
isMissing(completeKeys, sourceKeys, code) ==
    code # <<>> /\ code \notin completeKeys /\ code \notin sourceKeys

\* sourceData.forEach: the missing records, each code once
RECURSIVE missingRecords(_, _, _, _)
missingRecords(completeKeys, sourceData, i, st) ==
    IF i > Len(sourceData) THEN st.missing
    ELSE LET code == fixCode(sourceData[i])
         IN  IF isMissing(completeKeys, st.sourceKeys, code)
             THEN missingRecords(completeKeys, sourceData, i + 1,
                    [sourceKeys |-> st.sourceKeys \cup {code},
                     missing |-> Append(st.missing, sourceData[i])])
             ELSE missingRecords(completeKeys, sourceData, i + 1, st)

\* missingRecords.forEach of the combining step: completeMap grows as
\* records are added
RECURSIVE combine(_, _, _, _)
combine(fixedData, keys, missing, i) ==
    IF i > Len(missing) THEN fixedData
    ELSE LET code == fixCode(missing[i])
         IN  IF code # <<>> /\ code \notin keys
             THEN combine(Append(fixedData, missing[i]), keys \cup {code},
                          missing, i + 1)
             ELSE combine(fixedData, keys, missing, i + 1)

\* classifyEntity(item) throws: item is null, or the name of a record it
\* takes as far as the city/municipality branch has no toLowerCase
fixMissingRecords_throws(it) ==
    \/ it.malformed = "null"
    \/ /\ it.malformed = "name"
       /\ LET code == fixCode(it)
          IN  /\ code # <<>> /\ ~isRegionPattern(code)
              /\ ~isProvincePattern(code) /\ isCityMuniPattern(code)

\* the classifying loops over both files come first and have no try block
fixMissingRecords(completeData, sourceData) ==
    LET keys == completeMapKeys(completeData)
        missing == missingRecords(keys, sourceData, 1,
                                  [sourceKeys |-> {}, missing |-> <<>>])
    IN  IF \/ \E i \in 1..Len(completeData) :
                  fixMissingRecords_throws(completeData[i])
           \/ \E i \in 1..Len(sourceData) :
                  fixMissingRecords_throws(sourceData[i])
        THEN [missingRecords |-> <<>>, fixedData |-> <<>>, aborted |-> TRUE]
        ELSE [missingRecords |-> missing,
              fixedData |-> combine(completeData, keys, missing, 1),
              aborted |-> FALSE]

----------------------------------------------------------------------------
(* The store: the tables of database/db.js, foreign keys enforced *)

EmptyStore ==
    [regions |-> {}, provinces |-> {}, districts |-> {}, cities |-> {},
     municipalities |-> {}, barangays |-> {}]

codesOf(table) == {r.code : r \in table}

\* SELECT code FROM <table> WHERE code = ?
exists(table, code) == code \in codesOf(table)

\* a foreign key column: NULL or the code of a row of the parent table
fkHolds(parent, code) == code = <<>> \/ exists(parent, code)

\* INSERT OR REPLACE: the row replaces the row with the same code
upsert(table, row) == {r \in table : r.code # row.code} \cup {row}

regionRow(d) == [code |-> d.code, name |-> d.name]

provinceRow(d) == [code |-> d.code, name |-> d.name, region_code |-> d.region_code]

cityRow(d) ==
    [code |-> d.code, name |-> d.name, province_code |-> d.province_code,
     district_code |-> d.district_code, region_code |-> d.region_code,
     city_class |-> d.city_class]

municipalityRow(d) ==
    [code |-> d.code, name |-> d.name, province_code |-> d.province_code,
     district_code |-> d.district_code, region_code |-> d.region_code]

\* the constraints of each table: NOT NULL columns and FOREIGN KEYs
provinceAccepted(store, row) ==
    row.region_code # <<>> /\ fkHolds(store.regions, row.region_code)

cityAccepted(store, row) ==
    /\ row.region_code # <<>> /\ fkHolds(store.regions, row.region_code)
    /\ fkHolds(store.provinces, row.province_code)
    /\ fkHolds(store.districts, row.district_code)

municipalityAccepted(store, row) ==
    /\ row.region_code # <<>> /\ fkHolds(store.regions, row.region_code)
    /\ row.province_code # <<>> /\ fkHolds(store.provinces, row.province_code)
    /\ fkHolds(store.districts, row.district_code)

barangayAccepted(store, row) ==
    /\ row.region_code # <<>> /\ fkHolds(store.regions, row.region_code)
    /\ row.province_code # <<>> /\ fkHolds(store.provinces, row.province_code)
    /\ fkHolds(store.cities, row.city_code)
    /\ fkHolds(store.municipalities, row.municipality_code)

----------------------------------------------------------------------------
(* importPSGC.js, second copy: the insert helpers and the import loops.   *)
(* An insert returns [ok, store]: ok is FALSE when db.run rejects (throws) *)

insertRegion(store, d) ==
    [ok |-> TRUE, store |-> [store EXCEPT !.regions = upsert(@, regionRow(d))]]

insertProvince(store, d) ==
    IF provinceAccepted(store, provinceRow(d))
    THEN [ok |-> TRUE,
          store |-> [store EXCEPT !.provinces = upsert(@, provinceRow(d))]]
    ELSE [ok |-> FALSE, store |-> store]

insertCity(store, d) ==
    IF cityAccepted(store, cityRow(d))
    THEN [ok |-> TRUE, store |-> [store EXCEPT !.cities = upsert(@, cityRow(d))]]
    ELSE [ok |-> FALSE, store |-> store]

insertMunicipality(store, d) ==
    IF municipalityAccepted(store, municipalityRow(d))
    THEN [ok |-> TRUE,
          store |-> [store EXCEPT !.municipalities = upsert(@, municipalityRow(d))]]
    ELSE [ok |-> FALSE, store |-> store]

\* the lookup with municipalities tried first
barangayParents_municipalityFirst(store, d) ==
    LET cityMuniCode == cityMuniOf(d.code)
    IN  IF d.city_code = <<>> /\ d.municipality_code = <<>>
        THEN IF exists(store.municipalities, cityMuniCode)
             THEN [city_code |-> <<>>, municipality_code |-> cityMuniCode]
             ELSE IF exists(store.cities, cityMuniCode)
             THEN [city_code |-> cityMuniCode, municipality_code |-> <<>>]
             ELSE [city_code |-> <<>>, municipality_code |-> <<>>]
        ELSE [city_code |-> d.city_code,
              municipality_code |-> d.municipality_code]

\* the parent columns insertBarangay writes: the explicit codes, or else
\* the prefix looked up in cities first and municipalities second
barangayParents(store, d) ==
    LET cityMuniCode == cityMuniOf(d.code)
    IN  IF d.city_code = <<>> /\ d.municipality_code = <<>>
        THEN IF exists(store.cities, cityMuniCode)
             THEN [city_code |-> cityMuniCode, municipality_code |-> <<>>]
             ELSE IF exists(store.municipalities, cityMuniCode)
             THEN [city_code |-> <<>>, municipality_code |-> cityMuniCode]
             ELSE [city_code |-> <<>>, municipality_code |-> <<>>]
        ELSE [city_code |-> d.city_code,
              municipality_code |-> d.municipality_code]

barangayRow(store, d) ==
    LET parents == barangayParents(store, d)
    IN  [code |-> d.code, name |-> d.name,
         city_code |-> parents.city_code,
         municipality_code |-> parents.municipality_code,
         province_code |-> d.province_code, region_code |-> d.region_code]

insertBarangay(store, d) ==
    LET row == barangayRow(store, d)
    IN  IF barangayAccepted(store, row)
        THEN [ok |-> TRUE, store |-> [store EXCEPT !.barangays = upsert(@, row)]]
        ELSE [ok |-> FALSE, store |-> store]

\* the "ensure region exists" step of every loop
ensureRegion(store, d) ==
    IF d.region_code # <<>> /\ ~exists(store.regions, d.region_code)
    THEN insertRegion(store,
            [code |-> d.region_code,
             name |-> <<"region">> \o substring(d.region_code, 0, 2)]).store
    ELSE store

\* the province test of the cities and municipalities loops: TRUE when the
\* record is skipped (errors++; continue)
skipsForProvince(store, d) ==
    d.province_code # <<>> /\ ~exists(store.provinces, d.province_code)

\* the province step of the barangays loop: a basic province entry is
\* created when the province is missing
ensureProvince(store, d) ==
    IF /\ d.province_code # <<>> /\ ~exists(store.provinces, d.province_code)
       /\ d.region_code # <<>>
    THEN insertProvince(store,
            [code |-> d.province_code,
             name |-> <<"province">> \o substring(d.province_code, 0, 4),
             region_code |-> d.region_code]).store
    ELSE store

\* district_code is cleared when the district does not exist
clearDistrict(store, d) ==
    IF d.district_code # <<>> /\ ~exists(store.districts, d.district_code)
    THEN [d EXCEPT !.district_code = <<>>] ELSE d

\* one iteration of the loop over the list of one kind; st carries the
\* store, the records skipped for a missing province and the records whose
\* insert was rejected
importOne(st, d) ==
    LET s1 == IF d.kind = "region" THEN st.store ELSE ensureRegion(st.store, d)
    IN  CASE d.kind = "region" ->
                [st EXCEPT !.store = insertRegion(s1, d).store]
          [] d.kind = "province" ->
                LET r == insertProvince(s1, d)
                IN  [st EXCEPT !.store = r.store,
                               !.failed = IF r.ok THEN @ ELSE @ \cup {d}]
          [] d.kind \in {"city", "municipality"} ->
                IF skipsForProvince(s1, d)
                THEN [st EXCEPT !.store = s1, !.skipped = @ \cup {d}]
                ELSE LET r == IF d.kind = "city"
                              THEN insertCity(s1, clearDistrict(s1, d))
                              ELSE insertMunicipality(s1, clearDistrict(s1, d))
                     IN  [st EXCEPT !.store = r.store,
                                    !.failed = IF r.ok THEN @ ELSE @ \cup {d}]
          [] d.kind = "barangay" ->
                LET dp == IF d.province_code = <<>>
                          THEN [d EXCEPT !.province_code = extractProvinceCode(d.code)]
                          ELSE d
                    r == insertBarangay(ensureProvince(s1, dp), dp)
                IN  [st EXCEPT !.store = r.store,
                               !.failed = IF r.ok THEN @ ELSE @ \cup {d}]

RECURSIVE importList(_, _, _)
importList(st, list, i) ==
    IF i > Len(list) THEN st
    ELSE importList(importOne(st, list[i]), list, i + 1)

\* the classification pass over the batch
RECURSIVE classifyBatch(_, _)
classifyBatch(data, i) ==
    IF i > Len(data) THEN <<>>
    ELSE <<importData_classify(data[i])>> \o classifyBatch(data, i + 1)

\* importData: classification, then the lists in the order regions,
\* provinces, districts (never filled), cities, municipalities, barangays
\* the classification pass throws: item.code of a null element, or
\* (item.name || ...).trim() of a name that is a number
importData_throws(it) == it.malformed # ""

importData(store, data) ==
    LET classified == classifyBatch(data, 1)
        st0 == [store |-> store, skipped |-> {}, failed |-> {},
                aborted |-> FALSE]
        st1 == importList(st0, ofKind(classified, "region"), 1)
        st2 == importList(st1, ofKind(classified, "province"), 1)
        st3 == importList(st2, ofKind(classified, "city"), 1)
        st4 == importList(st3, ofKind(classified, "municipality"), 1)
    IN  IF \E i \in 1..Len(data) : importData_throws(data[i])
        THEN [st0 EXCEPT !.aborted = TRUE]
        ELSE importList(st4, ofKind(classified, "barangay"), 1)

----------------------------------------------------------------------------
(* Inputs *)

\* all strings over alphabet of length at most n
RECURSIVE StringsUpTo(_, _)
StringsUpTo(alphabet, n) ==
    IF n = 0 THEN {<<>>}
    ELSE LET shorter == StringsUpTo(alphabet, n - 1)
         IN  shorter \cup {<<c>> \o s : c \in alphabet, s \in shorter}

HeadAlphabet == {"0", "1", "-", " "}

CodeTails ==
    {<<>>,
     <<"3", "7", "4", "0", "1", "0", "0">>,
     <<"3", "7", "4", "0", "1", "0", "0", "0">>,
     <<"1", "3", "7", "4", "0", "1", "0", "0", "0">>,
     <<"0", "1", "3", "7", "4", "0", "1", "0", "0", "0">>,
     <<"1", "3", "7", "4", "0", "1", "0", "0", " ", "1">>}

RawStrings == {h \o t : h \in StringsUpTo(HeadAlphabet, MaxHead), t \in CodeTails}

RawNumbers == {0, 7, 137401000, -5}

RawValues ==
    {Undefined, Null} \cup {Str(s) : s \in RawStrings}
        \cup {Num(n) : n \in RawNumbers}

\* the 9-digit codes over the digits 0..MaxDigit
Codes9 == {c \in StringsUpTo({DigitChar(d) : d \in 0..MaxDigit}, CodeLen) :
              Len(c) = CodeLen}

Names ==
    {<<"bay">>, <<"city">>, <<"city", "of", "manila">>, <<"quezon", "city">>,
     <<"municipality", "of", "pateros">>}

TypeValues == {"", "City", "Municipality"}

CityClasses == {<<>>, <<"H", "U", "C">>}

Manila == <<"1", "3", "7", "4", "0", "1", "0", "0", "0">>

Bay == <<"0", "4", "2", "1", "1", "1", "0", "0", "0">>

DistrictShaped == <<"1", "3", "7", "4", "1", "0", "0", "0", "0">>

ManilaBrgy == <<"1", "3", "7", "4", "0", "1", "0", "0", "1">>

BayBrgy == <<"0", "4", "2", "1", "1", "1", "0", "0", "1">>

\* a barangay record with explicit parent codes
WithParents(it, city, muni) ==
    [it EXCEPT !.city_code = city, !.municipality_code = muni]

\* explicit parent codes as a source writes them: absent, nine digits, or
\* eight digits (the leading zero lost)
ParentCodes == {<<>>, Manila, Bay, Tail(Bay)}

ClassifyItems ==
    {MkItem(c, <<"bay">>, "", <<>>) : c \in Codes9 \cup {<<"0">>}}
        \cup {MkItem(c, n, t, cc) : c \in {Manila, Bay, DistrictShaped},
                                    n \in Names, t \in TypeValues,
                                    cc \in CityClasses}
        \cup {WithParents(MkItem(c, <<"poblacion">>, t, <<>>), city, muni) :
                c \in {ManilaBrgy, BayBrgy}, t \in {"", "Barangay"},
                city \in ParentCodes, muni \in ParentCodes}

----------------------------------------------------------------------------
(* Batches for cleanData and fixMissingRecords *)

BatchItems ==
    {MkItem(<<"1", "3", "0", "0", "0", "0", "0", "0", "0">>, <<"ncr">>, "", <<>>),
     MkItem(Manila, <<"city", "of", "manila">>, "", <<>>),
     MkItem(Manila, <<"manila">>, "", <<>>),
     MkItem(Manila, <<"manila">>, "City", <<>>),
     MkItem(Manila, <<>>, "", <<>>),
     MkItem(DistrictShaped, <<"district", "one">>, "", <<>>),
     MkItem(ZeroCode, <<"none">>, "", <<>>),
     MkItem(Bay, <<"bay">>, "", <<>>),
     MkItem(Tail(Bay), <<"bay", "laguna">>, "", <<>>),
     MkItem(ManilaBrgy, <<"poblacion">>, "", <<>>),
     WithParents(MkItem(ManilaBrgy, <<"barangay", "one">>, "", <<>>), Manila, <<>>),
     [MkItem(<<>>, <<"manila">>, "", <<>>) EXCEPT !.psgc10 = <<"0">> \o Manila]}

RECURSIVE SeqsUpTo(_, _)
SeqsUpTo(S, n) ==
    IF n = 0 THEN {<<>>}
    ELSE LET shorter == SeqsUpTo(S, n - 1)
         IN  shorter \cup {Append(q, x) : q \in shorter, x \in S}

NoCleanOut ==
    [run |-> FALSE, allData |-> <<>>, duplicates |-> <<>>, invalid |-> <<>>,
     aborted |-> FALSE]

NoFixOut ==
    [run |-> FALSE, missingRecords |-> <<>>, fixedData |-> <<>>,
     aborted |-> FALSE]

BatchIdle ==
    /\ batch = <<>> /\ baseline = <<>>
    /\ cleanOut = NoCleanOut /\ fixOut = NoFixOut /\ recleanOut = NoCleanOut
    /\ swapOut = NoFixOut

BatchInit ==
    /\ batch \in SeqsUpTo(BatchItems, MaxBatch)
    /\ baseline \in SeqsUpTo(BatchItems, MaxBaseline)
    /\ cleanOut = NoCleanOut /\ fixOut = NoFixOut /\ recleanOut = NoCleanOut
    /\ swapOut = NoFixOut

CleanData ==
    /\ ~cleanOut.run
    /\ cleanOut' = [run |-> TRUE] @@ cleanData(batch)
    /\ UNCHANGED <<batch, baseline, fixOut, recleanOut, swapOut>>

FixMissingRecords ==
    /\ ~fixOut.run
    /\ fixOut' = [run |-> TRUE] @@ fixMissingRecords(baseline, batch)
    /\ UNCHANGED <<batch, baseline, cleanOut, recleanOut, swapOut>>

\* the merge with the two files in each other's place
FixSwapped ==
    /\ ~swapOut.run
    /\ swapOut' = [run |-> TRUE] @@ fixMissingRecords(batch, baseline)
    /\ UNCHANGED <<batch, baseline, cleanOut, fixOut, recleanOut>>

\* a record of the cleaned file read back: the fields cleanData wrote (code,
\* name, the parent codes, city_class); the list it was pushed to is not
\* among them
readBack(e) ==
    [MkItem(e.code, e.name, "", e.city_class) EXCEPT
        !.city_code = e.city_code,
        !.municipality_code = e.municipality_code,
        !.province_code = e.province_code,
        !.region_code = e.region_code]

readBackAll(list) == [i \in 1..Len(list) |-> readBack(list[i])]

\* cleanData run on the file a first run wrote
CleanAgain ==
    /\ cleanOut.run /\ ~recleanOut.run
    /\ recleanOut' = [run |-> TRUE] @@ cleanData(readBackAll(cleanOut.allData))
    /\ UNCHANGED <<batch, baseline, cleanOut, fixOut, swapOut>>

\* the batches of a cleaning run repeated: no complete file is involved
RecleanInit ==
    /\ batch \in SeqsUpTo(BatchItems, MaxBatch)
    /\ baseline = <<>>
    /\ cleanOut = NoCleanOut /\ fixOut = NoFixOut /\ recleanOut = NoCleanOut
    /\ swapOut = NoFixOut

----------------------------------------------------------------------------
(* Import runs on one database *)

NCR == <<"1", "3", "0", "0", "0", "0", "0", "0", "0">>

ManilaProvince == <<"1", "3", "7", "4", "0", "0", "0", "0", "0">>

Laguna == <<"0", "4", "2", "1", "0", "0", "0", "0", "0">>

ImportItems ==
    {MkItem(NCR, <<"ncr">>, "", <<>>),
     MkItem(ManilaProvince, <<"metro", "manila">>, "", <<>>),
     MkItem(Laguna, <<"laguna">>, "", <<>>),
     MkItem(Manila, <<"city", "of", "manila">>, "", <<>>),
     MkItem(Manila, <<"manila">>, "", <<>>),
     MkItem(Bay, <<"bay">>, "", <<>>),
     MkItem(ManilaBrgy, <<"poblacion">>, "", <<>>),
     WithParents(MkItem(ManilaBrgy, <<"barangay", "one">>, "", <<>>), Manila, <<>>),
     MkItem(BayBrgy, <<"dila">>, "", <<>>),
     WithParents(MkItem(BayBrgy, <<"dila">>, "", <<>>), Manila, Bay),
     MkItem(ManilaBrgy, <<"poblacion">>, "Region", <<>>),
     [MkItem(Laguna, <<"laguna">>, "", <<>>) EXCEPT !.region_code = ManilaProvince]}

ImportIdle ==
    /\ db = EmptyStore /\ imported = <<>>
    /\ skipped = {} /\ failed = {} /\ runs = 0 /\ crashed = FALSE

ImportInit == ImportIdle

ImportData(data) ==
    /\ runs < MaxRuns
    /\ \E st \in {importData(db, data)} :
          /\ db' = st.store
          /\ skipped' = st.skipped
          /\ failed' = st.failed
          /\ crashed' = st.aborted
    /\ imported' = data
    /\ runs' = runs + 1

ImportNext == \E data \in SeqsUpTo(ImportItems, MaxImport) : ImportData(data)

----------------------------------------------------------------------------
(* One batch with malformed records handed to all three tools *)

\* an array element that is null
NullItem == [MkItem(<<>>, <<>>, "", <<>>) EXCEPT !.malformed = "null"]

\* a record whose name is the number 5
NumberNamed == [MkItem(Manila, <<"5">>, "", <<>>) EXCEPT !.malformed = "name"]

MalformedItems ==
    {NullItem, NumberNamed,
     MkItem(<<>>, <<"nowhere">>, "", <<>>),
     MkItem(Manila, <<>>, "", <<>>)}

MalformedInit ==
    /\ batch \in SeqsUpTo(BatchItems \cup MalformedItems, MaxBatch)
    /\ baseline = <<>>
    /\ cleanOut = NoCleanOut /\ fixOut = NoFixOut /\ recleanOut = NoCleanOut
    /\ swapOut = NoFixOut

\* importData on the batch
ImportBatch == ImportData(batch)

----------------------------------------------------------------------------
(* Grammar: every normalizeCode applied to one raw value *)

NotRun == [f \in Normalizers |-> Undefined]

GrammarIdle == raw = Undefined /\ norm = NotRun /\ again = NotRun

GrammarInit == raw \in RawValues /\ norm = NotRun /\ again = NotRun

Normalize ==
    /\ norm = NotRun
    /\ norm' = normalizeAll(raw)
    /\ UNCHANGED <<raw, again>>

\* normalizeCode(normalizeCode(raw)), script by script
Renormalize ==
    /\ norm # NotRun /\ again = NotRun
    /\ again' = [f \in Normalizers |-> normalizeAll(norm[f])[f]]
    /\ UNCHANGED <<raw, norm>>

----------------------------------------------------------------------------
(* Classifiers: every classifier applied to one record *)

Classifiers == {"cleanPSGCData", "fixMissingRecords", "validateDataFile",
                "importData", "importDataV1", "parseExcelToJSON",
                "convertToOurFormat", "diagnose"}

\* the lists fetchAllPSGCData converts
Endpoints == {"region", "province", "city", "municipality", "barangay"}

classifyAll(it, type) ==
    [f \in Classifiers |->
        CASE f = "cleanPSGCData" ->
                cleanPSGCData_classifyEntity(it.code, it.name, it.type, it)
          [] f = "fixMissingRecords" -> fixMissingRecords_classifyEntity(it)
          [] f = "validateDataFile" -> validateDataFile_classify(it)
          [] f = "importData" -> importData_classify(it).kind
          [] f = "importDataV1" -> importDataV1_classify(it).kind
          [] f = "parseExcelToJSON" -> parseExcelToJSON_row(it).kind
          [] f = "convertToOurFormat" -> convertToOurFormat_item(it, type).kind
          [] f = "diagnose" -> diagnose_classify(it)]

NotClassified == [f \in Classifiers |-> "?"]

Stages == {"parseExcelToJSON", "cleanData", "importData"}

\* the record each stage emits for a batch made of it alone
emitAll(it) ==
    [f \in Stages |->
        CASE f = "parseExcelToJSON" -> parseExcelToJSON_row(it)
          [] f = "cleanData" -> cleanData_record(it)
          [] f = "importData" -> importData_classify(it)]

NotEmitted == [f \in Stages |-> Emit("?", <<>>, <<>>, NoParents)]

ClassifyIdle ==
    /\ item = MkItem(<<>>, <<>>, "", <<>>)
    /\ level = NotClassified /\ out = NotEmitted /\ endpoint = "region"
    /\ ancestors = NoAncestors

ClassifyInit ==
    /\ item \in ClassifyItems /\ endpoint \in Endpoints
    /\ level = NotClassified /\ out = NotEmitted
    /\ ancestors = NoAncestors

Classify ==
    /\ level = NotClassified
    /\ level' = classifyAll(item, endpoint)
    /\ out' = emitAll(item)
    /\ ancestors' = deriveAncestors(item.code)
    /\ UNCHANGED <<item, endpoint>>

----------------------------------------------------------------------------
(* validatePSGC.js validateDatabase: the counts against the PSA standards *)

PSA_STANDARDS ==
    [regions |-> [exact |-> 18, min |-> 18, max |-> 18],
     provinces |-> [exact |-> 82, min |-> 82, max |-> 82],
     cities |-> [exact |-> 149, min |-> 149, max |-> 149],
     municipalities |-> [exact |-> 1493, min |-> 1493, max |-> 1493],
     barangays |-> [exact |-> 42011, min |-> 42011, max |-> 42011]]

Levels == DOMAIN PSA_STANDARDS

\* the difference with its sign turned round
validateCount_diff_reversed(actual, standard) == standard.exact - actual

\* const diff = actual - standard.exact
validateCount_diff(actual, standard) == actual - standard.exact

\* validateCount(name, actual, standard): outcome is the branch taken, diff
\* the difference it prints, issue whether it returns an issue text
validateCount(name, actual, standard) ==
    LET diff == validateCount_diff(actual, standard)
        withinRange == actual >= standard.min /\ actual <= standard.max
        exactMatch == actual = standard.exact
    IN  IF exactMatch
        THEN [name |-> name, outcome |-> "exact", diff |-> diff, issue |-> FALSE]
        ELSE IF withinRange
        THEN [name |-> name, outcome |-> "within", diff |-> diff, issue |-> TRUE]
        ELSE [name |-> name, outcome |-> "outside", diff |-> diff, issue |-> TRUE]

NoReport == [name |-> "", outcome |-> "", diff |-> 0, issue |-> FALSE]

\* the counts a database can give: small ones, the count 490 of a partial
\* import, and the counts next to each standard
Actuals ==
    (0..MaxActual) \cup {490}
        \cup UNION {{PSA_STANDARDS[l].exact - 1, PSA_STANDARDS[l].exact,
                     PSA_STANDARDS[l].exact + 1} : l \in Levels}

ValidateIdle ==
    counted = [name |-> "regions", actual |-> 0] /\ report = NoReport

ValidateInit ==
    /\ counted \in [name : Levels, actual : Actuals]
    /\ report = NoReport

ValidateCount ==
    /\ report = NoReport
    /\ report' = validateCount(counted.name, counted.actual,
                               PSA_STANDARDS[counted.name])
    /\ UNCHANGED counted

----------------------------------------------------------------------------
(* The HTTP API: the models (one class per table) and the controllers      *)

\* the collation of ORDER BY name, word by word
WordOrder ==
    <<"0", "1", "2", "3", "4", "5", "6", "7", "8", "9", "barangay", "bay",
      "city", "dila", "laguna", "manila", "metro", "ncr", "of", "one",
      "poblacion", "province", "region">>

wordRank(w) == CHOOSE i \in 1..Len(WordOrder) : WordOrder[i] = w

RECURSIVE nameBefore(_, _)
nameBefore(a, b) ==
    IF a = <<>> THEN b # <<>>
    ELSE IF b = <<>> THEN FALSE
    ELSE IF Head(a) = Head(b) THEN nameBefore(Tail(a), Tail(b))
    ELSE wordRank(Head(a)) < wordRank(Head(b))

\* ORDER BY name: rows of equal name come in an order SQLite does not fix
RECURSIVE orderByName(_)
orderByName(rows) ==
    IF rows = {} THEN <<>>
    ELSE LET first == CHOOSE r \in rows :
                        \A o \in rows : ~nameBefore(o.name, r.name)
         IN  <<first>> \o orderByName(rows \ {first})

\* LIMIT n: a negative n is no limit
\* the number of rows a query selecting len rows returns under LIMIT n
limitCount(len, n) == IF n < 0 \/ n >= len THEN len ELSE n

limitRows(list, n) == SubSeq(list, 1, limitCount(Len(list), n))

\* db.get('SELECT * FROM <table> WHERE code = ?'): the row, or undefined
getByCode(table, code) ==
    IF exists(table, code) THEN CHOOSE r \in table : r.code = code ELSE <<>>

\* db.all('SELECT * FROM <table> WHERE <column> = ? ORDER BY name')
getBy(table, column, code) == orderByName({r \in table : r[column] = code})

\* the parent columns the get-by-code handlers join
JoinedParents ==
    [regions |-> {}, provinces |-> {"region"}, districts |-> {},
     cities |-> {"province", "region"}, municipalities |-> {"province", "region"},
     barangays |-> {"city", "municipality", "province", "region"}]

ParentTable ==
    [region |-> "regions", province |-> "provinces", city |-> "cities",
     municipality |-> "municipalities"]

ParentColumn ==
    [region |-> "region_code", province |-> "province_code",
     city |-> "city_code", municipality |-> "municipality_code"]

\* SELECT p.* FROM <parents> p INNER JOIN <table> c ON p.code = c.<column>
\* WHERE c.code = ?, then `|| null`
getParent(store, row, parent) ==
    getByCode(store[ParentTable[parent]], row[ParentColumn[parent]])

\* model.search(query[, limit]): name LIKE %query% ORDER BY name LIMIT n
SearchCap == 50

search(table, query, n) ==
    limitRows(orderByName({r \in table : nameIncludes(r.name, query)}), n)

\* parseInt(text): the leading digits after an optional sign, NaN without
DigitChars == <<"0", "1", "2", "3", "4", "5", "6", "7", "8", "9">>

digitValue(c) == (CHOOSE i \in 1..10 : DigitChars[i] = c) - 1

RECURSIVE leadingDigits(_)
leadingDigits(s) ==
    IF s = <<>> \/ Head(s) \notin Digits THEN <<>>
    ELSE <<Head(s)>> \o leadingDigits(Tail(s))

RECURSIVE digitsValue(_)
digitsValue(s) ==
    IF s = <<>> THEN 0
    ELSE 10 * digitsValue(SubSeq(s, 1, Len(s) - 1)) + digitValue(s[Len(s)])

parseInt(text) ==
    LET negative == text # <<>> /\ Head(text) = "-"
        digits == leadingDigits(IF negative THEN Tail(text) ELSE text)
    IN  IF digits = <<>> THEN [nan |-> TRUE, n |-> 0]
        ELSE [nan |-> FALSE,
              n |-> IF negative THEN 0 - digitsValue(digits)
                    ELSE digitsValue(digits)]

\* parseInt(limit) || fallback: NaN and 0 are falsy
limitOr(text, fallback) ==
    LET parsed == parseInt(text)
    IN  IF parsed.nan \/ parsed.n = 0 THEN fallback ELSE parsed.n

SearchDefaultLimit == 20

ListDefaultLimit == 1000

\* res.status(404).json({error, message})
notFound(what, code) ==
    [status |-> 404,
     body |-> [error |-> "Not found", message |-> <<what, code, "not found">>]]

\* the routes GET /<table>/:code
ByCodeRoutes ==
    {[handler |-> "getRegionByCode", table |-> "regions"],
     [handler |-> "getProvinceByCode", table |-> "provinces"],
     [handler |-> "getCityByCode", table |-> "cities"],
     [handler |-> "getMunicipalityByCode", table |-> "municipalities"],
     [handler |-> "getBarangayByCode", table |-> "barangays"]}

\* get<Entity>ByCode
getEntityByCode(store, route, code) ==
    LET row == getByCode(store[route.table], code)
    IN  IF row = <<>> THEN notFound(route.table, code)
        ELSE [status |-> 200,
              body |-> [data |-> [row |-> row,
                                  parents |-> [p \in JoinedParents[route.table] |->
                                                  getParent(store, row, p)]]]]

\* the routes GET /<parents>/:code/<children>; cap is the LIMIT of the
\* model's query, -1 for none
ChildrenRoutes ==
    {[handler |-> "getRegionProvinces", parent |-> "regions",
      table |-> "provinces", column |-> "region_code", cap |-> -1],
     [handler |-> "getRegionCities", parent |-> "regions",
      table |-> "cities", column |-> "region_code", cap |-> -1],
     [handler |-> "getRegionMunicipalities", parent |-> "regions",
      table |-> "municipalities", column |-> "region_code", cap |-> -1],
     [handler |-> "getProvinceCities", parent |-> "provinces",
      table |-> "cities", column |-> "province_code", cap |-> -1],
     [handler |-> "getProvinceMunicipalities", parent |-> "provinces",
      table |-> "municipalities", column |-> "province_code", cap |-> -1],
     [handler |-> "getProvinceBarangays", parent |-> "provinces",
      table |-> "barangays", column |-> "province_code", cap |-> ListDefaultLimit],
     [handler |-> "getCityBarangays", parent |-> "cities",
      table |-> "barangays", column |-> "city_code", cap |-> -1],
     [handler |-> "getMunicipalityBarangays", parent |-> "municipalities",
      table |-> "barangays", column |-> "municipality_code", cap |-> -1]}

\* get<Parent><Children>: the parent is looked up first
getChildren(store, route, code) ==
    LET parent == getByCode(store[route.parent], code)
        children == limitRows(getBy(store[route.table], route.column, code),
                              route.cap)
    IN  IF parent = <<>> THEN notFound(route.parent, code)
        ELSE [status |-> 200,
              body |-> [data |-> children, count |-> Len(children),
                        parent |-> [code |-> parent.code, name |-> parent.name]]]

\* the routes GET /<table>/<ancestor>/:<ancestor>Code; limited tells whether
\* the handler reads the limit of the query string
AncestorRoutes ==
    {[handler |-> "getProvincesByRegion", parent |-> "regions",
      table |-> "provinces", column |-> "region_code", limited |-> FALSE],
     [handler |-> "getCitiesByProvince", parent |-> "provinces",
      table |-> "cities", column |-> "province_code", limited |-> FALSE],
     [handler |-> "getCitiesByRegion", parent |-> "regions",
      table |-> "cities", column |-> "region_code", limited |-> FALSE],
     [handler |-> "getMunicipalitiesByProvince", parent |-> "provinces",
      table |-> "municipalities", column |-> "province_code", limited |-> FALSE],
     [handler |-> "getMunicipalitiesByRegion", parent |-> "regions",
      table |-> "municipalities", column |-> "region_code", limited |-> FALSE],
     [handler |-> "getBarangaysByCity", parent |-> "cities",
      table |-> "barangays", column |-> "city_code", limited |-> FALSE],
     [handler |-> "getBarangaysByMunicipality", parent |-> "municipalities",
      table |-> "barangays", column |-> "municipality_code", limited |-> FALSE],
     [handler |-> "getBarangaysByProvince", parent |-> "provinces",
      table |-> "barangays", column |-> "province_code", limited |-> TRUE],
     [handler |-> "getBarangaysByRegion", parent |-> "regions",
      table |-> "barangays", column |-> "region_code", limited |-> TRUE]}

\* get<Entities>By<Ancestor>: the list is selected and sent, the ancestor
\* is not looked up
getByAncestor(store, route, code, limit) ==
    LET list == limitRows(getBy(store[route.table], route.column, code),
                          IF route.limited
                          THEN limitOr(limit, ListDefaultLimit) ELSE -1)
    IN  [status |-> 200, body |-> [data |-> list, count |-> Len(list)]]

\* the entity types of /search
SearchTypes == {"regions", "provinces", "cities", "municipalities", "barangays"}

RECURSIVE sumOfLengths(_, _)
sumOfLengths(results, keys) ==
    IF keys = {} THEN 0
    ELSE LET k == CHOOSE x \in keys : TRUE
         IN  Len(results[k]) + sumOfLengths(results, keys \ {k})

\* searchAll: q, type and limit are req.query; an absent parameter is empty
searchAll(store, q, type, limit) ==
    LET searchLimit == limitOr(limit, SearchDefaultLimit)
        searchType == IF type = "" THEN "all" ELSE toLowerCase(type)
        results ==
            [t \in {x \in SearchTypes : searchType = "all" \/ searchType = x} |->
                IF t = "barangays" THEN search(store[t], q, searchLimit)
                ELSE search(store[t], q, SearchCap)]
        totalCount == sumOfLengths(results, DOMAIN results)
    IN  IF q = <<>>
        THEN [status |-> 400,
              body |-> [error |-> "Bad request", message |-> <<"q", "required">>]]
        ELSE [status |-> 200,
              body |-> [query |-> q, type |-> searchType, data |-> results,
                        counts |-> [t \in SearchTypes \cup {"total"} |->
                                      IF t = "total" THEN totalCount
                                      ELSE IF t \in DOMAIN results
                                      THEN Len(results[t]) ELSE 0]]]

\* the codes, queries, types and limits of the requests
ApiCodes == {NCR, ManilaProvince, Manila, Bay, ManilaBrgy}

Queries == {<<>>, <<"region">>, <<"manila">>, <<"city", "of">>, <<"dila">>}

TypeInputs == {"", "all", "ALL", "Regions", "provinces", "cities",
               "municipalities", "barangays", "districts"}

LimitInputs == {<<>>, <<"0">>, <<"1">>, <<"2">>, <<"-", "1">>, <<"1", "x">>, <<"x">>}

NoRequest == [handler |-> "", code |-> <<>>, q |-> <<>>, type |-> "", limit |-> <<>>]

NoResponse == [status |-> 0, body |-> <<>>]

ApiIdle == request = NoRequest /\ response = NoResponse

\* the database the server is started on: what one importData run leaves
ApiSeeded ==
    \E data \in SeqsUpTo(ImportItems, MaxImport) :
        \E st \in {importData(EmptyStore, data)} :
            /\ db = st.store /\ imported = data
            /\ skipped = st.skipped /\ failed = st.failed
            /\ runs = 1 /\ crashed = st.aborted

ApiInit == ApiSeeded /\ ApiIdle

\* the routes GET /<table>; limited tells whether the handler reads the
\* limit of the query string and reports the total
AllRoutes ==
    {[handler |-> "getAllRegions", table |-> "regions", limited |-> FALSE],
     [handler |-> "getAllProvinces", table |-> "provinces", limited |-> FALSE],
     [handler |-> "getAllCities", table |-> "cities", limited |-> FALSE],
     [handler |-> "getAllMunicipalities", table |-> "municipalities",
      limited |-> FALSE],
     [handler |-> "getAllBarangays", table |-> "barangays", limited |-> TRUE]}

\* getAll<Entities>
getAll(store, route, limit) ==
    LET list == limitRows(orderByName(store[route.table]),
                          IF route.limited
                          THEN limitOr(limit, ListDefaultLimit) ELSE -1)
    IN  IF route.limited
        THEN [status |-> 200,
              body |-> [data |-> list, count |-> Len(list),
                        total |-> Cardinality(store[route.table])]]
        ELSE [status |-> 200, body |-> [data |-> list, count |-> Len(list)]]

\* GET /api/health and GET /api: fixed bodies
serverInfo(path) ==
    IF path = "health"
    THEN [status |-> 200, body |-> [status |-> "ok", version |-> "1.0.0"]]
    ELSE [status |-> 200, body |-> [name |-> "psgc api", version |-> "1.0.0"]]

\* a handler that creates the row it did not find
GetEntityByCode_creates ==
    /\ response = NoResponse
    /\ \E route \in ByCodeRoutes, code \in ApiCodes :
        /\ request' = [NoRequest EXCEPT !.handler = route.handler, !.code = code]
        /\ response' = getEntityByCode(db, route, code)
        /\ db' = IF exists(db[route.table], code) THEN db
                 ELSE [db EXCEPT ![route.table] =
                          upsert(@, [code |-> code, name |-> <<>>])]

\* the handlers issue SELECT statements only: no request writes the database.
\* One request per behaviour: what a handler answers depends on the database
\* and the request alone.
GetEntityByCode ==
    /\ response = NoResponse
    /\ \E route \in ByCodeRoutes, code \in ApiCodes :
        /\ request' = [NoRequest EXCEPT !.handler = route.handler, !.code = code]
        /\ response' = getEntityByCode(db, route, code)
        /\ UNCHANGED db

GetChildren ==
    /\ response = NoResponse
    /\ \E route \in ChildrenRoutes, code \in ApiCodes :
        /\ request' = [NoRequest EXCEPT !.handler = route.handler, !.code = code]
        /\ response' = getChildren(db, route, code)
        /\ UNCHANGED db

GetByAncestor ==
    /\ response = NoResponse
    /\ \E route \in AncestorRoutes, code \in ApiCodes, limit \in LimitInputs :
        /\ route.limited \/ limit = <<>>
        /\ request' = [NoRequest EXCEPT !.handler = route.handler,
                                        !.code = code, !.limit = limit]
        /\ response' = getByAncestor(db, route, code, limit)
        /\ UNCHANGED db

GetAll ==
    /\ response = NoResponse
    /\ \E route \in AllRoutes, limit \in LimitInputs :
        /\ route.limited \/ limit = <<>>
        /\ request' = [NoRequest EXCEPT !.handler = route.handler, !.limit = limit]
        /\ response' = getAll(db, route, limit)
        /\ UNCHANGED db

SearchAll ==
    /\ response = NoResponse
    /\ \E q \in Queries, type \in TypeInputs, limit \in LimitInputs :
        /\ request' = [NoRequest EXCEPT !.handler = "searchAll", !.q = q,
                                        !.type = type, !.limit = limit]
        /\ response' = searchAll(db, q, type, limit)
        /\ UNCHANGED db

ServerInfo ==
    /\ response = NoResponse
    /\ \E path \in {"health", "info"} :
        /\ request' = [NoRequest EXCEPT !.handler = path]
        /\ response' = serverInfo(path)
        /\ UNCHANGED db

----------------------------------------------------------------------------
(* The barangay list endpoints, by the number of rows                      *)

\* GET /barangays, /barangays/province/:provinceCode and
\* /barangays/region/:regionCode
ListRoutes == {"getAllBarangays", "getBarangaysByProvince", "getBarangaysByRegion"}

\* barangays.length of the handler: limit = parseInt(req.query.limit) || 1000,
\* then SELECT ... ORDER BY name LIMIT limit over rows matching rows
listBarangays(rows, limit) == limitCount(rows, limitOr(limit, ListDefaultLimit))

\* the row counts of a table: small ones, the counts next to the default
\* limit and the number of barangays of the standard
RowCounts ==
    (0..MaxRows) \cup {ListDefaultLimit - 1, ListDefaultLimit, ListDefaultLimit + 1,
                       PSA_STANDARDS["barangays"].exact}

ListLimitInputs == LimitInputs \cup {<<"2", "0", "0", "0">>, <<"-", "5">>}

NoListing == [handler |-> "", limit |-> <<>>, count |-> 0, sent |-> FALSE]

ListIdle == matching = 0 /\ listing = NoListing

ListInit == matching \in RowCounts /\ listing = NoListing

ListBarangays ==
    /\ ~listing.sent
    /\ \E handler \in ListRoutes, limit \in ListLimitInputs :
          listing' = [handler |-> handler, limit |-> limit,
                      count |-> listBarangays(matching, limit), sent |-> TRUE]
    /\ UNCHANGED matching

----------------------------------------------------------------------------
(* server.js: the rate limiter in front of the routes under /api/          *)

\* max: 100
RateMax == 100

\* a request path is the sequence of its segments; "/" is the empty one
Clients == {"a", "b"}

Paths == {<<"api", "v1", "regions">>, <<"api", "health">>, <<>>}

\* the limiter in front of the search router only
LimiterMount_search == <<"api", "v1", "search">>

\* app.use('/api/', limiter)
LimiterMount == <<"api">>

\* app.use(mount, middleware) runs the middleware for the paths under mount
mountMatches(mount, path) ==
    Len(path) >= Len(mount) /\ SubSeq(path, 1, Len(mount)) = mount

\* the paths of the API: /api, /api/health and the routers under /api/v1
underApi(path) == mountMatches(<<"api">>, path)

\* the limiter: the request is counted for its address, and answered 429
\* once the count of the window exceeds max
rateLimit(count) ==
    [count |-> count + 1, status |-> IF count + 1 > RateMax THEN 429 ELSE 200]

NoAnswer == [client |-> "", path |-> <<>>, status |-> 0, before |-> 0]

RateIdle ==
    /\ hits = [c \in Clients |-> 0] /\ served = [c \in Clients |-> 0]
    /\ answered = NoAnswer

RateInit == RateIdle

\* one request of client c: through the limiter when the path is under its
\* mount, then to the route
Request(c, path) ==
    /\ hits[c] < RateMax + MaxOver /\ served[c] < RateMax + MaxOver
    /\ \E r \in {IF mountMatches(LimiterMount, path) THEN rateLimit(hits[c])
                  ELSE [count |-> hits[c], status |-> 200]} :
          /\ hits' = [hits EXCEPT ![c] = r.count]
          /\ served' = [served EXCEPT ![c] =
                          IF r.status = 200 /\ underApi(path) THEN @ + 1 ELSE @]
          /\ answered' = [client |-> c, path |-> path, status |-> r.status,
                          before |-> served[c]]

SendRequest == \E c \in Clients, path \in Paths : Request(c, path)

\* windowMs after the first counted request of c its count is dropped
WindowEnds ==
    \E c \in Clients :
        /\ hits[c] > 0
        /\ hits' = [hits EXCEPT ![c] = 0]
        /\ served' = [served EXCEPT ![c] = 0]
        /\ UNCHANGED answered

ServerIdle == ListIdle /\ RateIdle

----------------------------------------------------------------------------
(* Specifications *)

InitGrammar == GrammarInit /\ ClassifyIdle /\ BatchIdle /\ ImportIdle /\ ValidateIdle /\ ApiIdle /\ ServerIdle

NextGrammar ==
    \/ Normalize /\ UNCHANGED <<classifyVars, batchVars, importVars, validateVars, apiVars, listVars, rateVars>>
    \/ Renormalize /\ UNCHANGED <<classifyVars, batchVars, importVars, validateVars, apiVars, listVars, rateVars>>

SpecGrammar == InitGrammar /\ [][NextGrammar]_vars

InitClassify == ClassifyInit /\ GrammarIdle /\ BatchIdle /\ ImportIdle /\ ValidateIdle /\ ApiIdle /\ ServerIdle

NextClassify == Classify /\ UNCHANGED <<grammarVars, batchVars, importVars, validateVars, apiVars, listVars, rateVars>>

SpecClassify == InitClassify /\ [][NextClassify]_vars

BatchNext ==
    \/ CleanData /\ UNCHANGED <<grammarVars, classifyVars, importVars, validateVars, apiVars, listVars, rateVars>>
    \/ FixMissingRecords /\ UNCHANGED <<grammarVars, classifyVars, importVars, validateVars, apiVars, listVars, rateVars>>

InitBatch == BatchInit /\ GrammarIdle /\ ClassifyIdle /\ ImportIdle /\ ValidateIdle /\ ApiIdle /\ ServerIdle

SpecBatch == InitBatch /\ [][BatchNext]_vars

InitReclean == RecleanInit /\ GrammarIdle /\ ClassifyIdle /\ ImportIdle /\ ValidateIdle /\ ApiIdle /\ ServerIdle

NextReclean ==
    \/ CleanData /\ UNCHANGED <<grammarVars, classifyVars, importVars, validateVars, apiVars, listVars, rateVars>>
    \/ CleanAgain /\ UNCHANGED <<grammarVars, classifyVars, importVars, validateVars, apiVars, listVars, rateVars>>

SpecReclean == InitReclean /\ [][NextReclean]_vars

NextMerge ==
    \/ FixMissingRecords
            /\ UNCHANGED <<grammarVars, classifyVars, importVars, validateVars, apiVars, listVars, rateVars>>
    \/ FixSwapped /\ UNCHANGED <<grammarVars, classifyVars, importVars, validateVars, apiVars, listVars, rateVars>>

SpecMerge == InitBatch /\ [][NextMerge]_vars

InitMalformed ==
    MalformedInit /\ GrammarIdle /\ ClassifyIdle /\ ImportIdle /\ ValidateIdle /\ ApiIdle /\ ServerIdle

NextMalformed ==
    \/ CleanData /\ UNCHANGED <<grammarVars, classifyVars, importVars, validateVars, apiVars, listVars, rateVars>>
    \/ FixMissingRecords
            /\ UNCHANGED <<grammarVars, classifyVars, importVars, validateVars, apiVars, listVars, rateVars>>
    \/ ImportBatch /\ UNCHANGED <<grammarVars, classifyVars, batchVars, validateVars, apiVars, listVars, rateVars>>

SpecMalformed == InitMalformed /\ [][NextMalformed]_vars

InitImport == ImportInit /\ GrammarIdle /\ ClassifyIdle /\ BatchIdle /\ ValidateIdle /\ ApiIdle /\ ServerIdle

NextImport == ImportNext /\ UNCHANGED <<grammarVars, classifyVars, batchVars, validateVars, apiVars, listVars, rateVars>>

SpecImport == InitImport /\ [][NextImport]_vars

InitValidate ==
    ValidateInit /\ GrammarIdle /\ ClassifyIdle /\ BatchIdle /\ ImportIdle /\ ApiIdle /\ ServerIdle

NextValidate ==
    ValidateCount
        /\ UNCHANGED <<grammarVars, classifyVars, batchVars, importVars, apiVars, listVars, rateVars>>

SpecValidate == InitValidate /\ [][NextValidate]_vars

InitApi ==
    ApiInit /\ GrammarIdle /\ ClassifyIdle /\ BatchIdle /\ ValidateIdle /\ ServerIdle

NextApi ==
    \/ GetEntityByCode
         /\ UNCHANGED <<grammarVars, classifyVars, batchVars, importLog, validateVars, listVars, rateVars>>
    \/ GetChildren
         /\ UNCHANGED <<grammarVars, classifyVars, batchVars, importLog, validateVars, listVars, rateVars>>
    \/ GetByAncestor
         /\ UNCHANGED <<grammarVars, classifyVars, batchVars, importLog, validateVars, listVars, rateVars>>
    \/ GetAll
         /\ UNCHANGED <<grammarVars, classifyVars, batchVars, importLog, validateVars, listVars, rateVars>>
    \/ SearchAll
         /\ UNCHANGED <<grammarVars, classifyVars, batchVars, importLog, validateVars, listVars, rateVars>>
    \/ ServerInfo
         /\ UNCHANGED <<grammarVars, classifyVars, batchVars, importLog, validateVars, listVars, rateVars>>

SpecApi == InitApi /\ [][NextApi]_vars

InitList ==
    /\ ListInit /\ GrammarIdle /\ ClassifyIdle /\ BatchIdle /\ ImportIdle
    /\ ValidateIdle /\ ApiIdle /\ RateIdle

NextList ==
    ListBarangays
        /\ UNCHANGED <<grammarVars, classifyVars, batchVars, importVars,
                       validateVars, apiVars, rateVars>>

SpecList == InitList /\ [][NextList]_vars

InitRate ==
    /\ RateInit /\ GrammarIdle /\ ClassifyIdle /\ BatchIdle /\ ImportIdle
    /\ ValidateIdle /\ ApiIdle /\ ListIdle

NextRate ==
    \/ SendRequest
         /\ UNCHANGED <<grammarVars, classifyVars, batchVars, importVars,
                        validateVars, apiVars, listVars>>
    \/ WindowEnds
         /\ UNCHANGED <<grammarVars, classifyVars, batchVars, importVars,
                        validateVars, apiVars, listVars>>

SpecRate == InitRate /\ [][NextRate]_vars

----------------------------------------------------------------------------
(* Code grammar and classification properties *)

\* the four shapes of a 9-digit code
Shape(code) ==
    IF allZero(SubSeq(code, 3, 9)) THEN "region"
    ELSE IF allZero(SubSeq(code, 5, 9)) THEN "province"
    ELSE IF allZero(SubSeq(code, 7, 9)) THEN "citymun"
    ELSE "barangay"

LevelShape(kind) == IF kind \in {"city", "municipality"} THEN "citymun" ELSE kind

TenDigitLeadingZero(v) ==
    v.k = "str" /\ Len(v.s) = 10 /\ allDigits(v.s) /\ Head(v.s) = "0"

NineDigits(v) == v.k = "str" /\ Len(v.s) = CodeLen /\ allDigits(v.s)

NoCitySignal(it) ==
    /\ it.type = "" /\ it.city_class = <<>> /\ it.CityClass = <<>>
    /\ ~nameIncludes(it.name, <<"city">>)

\* C1: every 9-digit code other than 000000000 has one of the four shapes
\* and cleanPSGCData.classifyEntity, fixMissingRecords.classifyEntity and
\* the pattern chain of validateDataFile return the level of that shape.
C1_ClassifiersReturnShape ==
    (level # NotClassified /\ item.code \in Codes9 /\ item.code # ZeroCode)
        => \A f \in {"cleanPSGCData", "fixMissingRecords", "validateDataFile"} :
              LevelShape(level[f]) = Shape(item.code)

\* C7: a City/Municipality-shaped record whose name contains
\* "municipality of" is a Municipality for every classifier, whatever its
\* type, city class or other name text.
C7_MunicipalityOfForcesMunicipality ==
    (/\ level # NotClassified
     /\ NineDigits(Str(item.code)) /\ Shape(item.code) = "citymun"
     /\ nameIncludes(item.name, <<"municipality", "of">>))
        => \A f \in {"cleanPSGCData", "fixMissingRecords", "importData"} :
              level[f] = "municipality"

\* C8: a City/Municipality-shaped record without any city signal is a
\* Municipality for parseExcelToJSON, cleanData and importData: never a
\* City, never unclassified or dropped.
C8_NoSignalIsMunicipality ==
    (/\ level # NotClassified
     /\ NineDigits(Str(item.code)) /\ Shape(item.code) = "citymun"
     /\ NoCitySignal(item))
        => \A f \in {"parseExcelToJSON", "cleanPSGCData", "importData",
                     "importDataV1"} :
              level[f] = "municipality"

\* C12: a record whose raw code normalizes to 000000000 is rejected or
\* skipped by cleanPSGCData.classifyEntity, fixMissingRecords.classifyEntity,
\* convertToOurFormat and importData: none gives it a level.
C12_ZeroCodeRejected ==
    (level # NotClassified /\ item.code # <<>> /\ allZero(item.code))
        => \A f \in {"cleanPSGCData", "fixMissingRecords",
                     "convertToOurFormat", "importData", "importDataV1"} :
              level[f] \in {"null", "skip"}

\* the level the classification pass of importData gives a bare code
levelOfCode(code) ==
    LevelShape(importData_classify(MkItem(code, <<"bay">>, "", <<>>)).kind)

\* the walk from a barangay code: three derived codes at the levels
\* City/Municipality, Province, Region, by the grammar and by importData,
\* and the region reached equal to the region derived directly
WalksUpThreeLevels ==
    /\ Shape(ancestors.cityMuni) = "citymun"
    /\ Shape(ancestors.province) = "province"
    /\ Shape(ancestors.region) = "region"
    /\ levelOfCode(ancestors.cityMuni) = "citymun"
    /\ levelOfCode(ancestors.province) = "province"
    /\ levelOfCode(ancestors.region) = "region"
    /\ ancestors.province = ancestors.provinceDirect
    /\ ancestors.region = ancestors.regionDirect

BarangayShaped(code) == NineDigits(Str(code)) /\ Shape(code) = "barangay"

\* no two-digit group in front of the barangay digits is 00
GroupsSet(code) ==
    /\ ~allZero(SubSeq(code, 1, 2))
    /\ ~allZero(SubSeq(code, 3, 4))
    /\ ~allZero(SubSeq(code, 5, 6))

\* C13 as claimed: from every barangay-shaped code the positional
\* derivation passes through a City/Municipality code, a Province code and
\* a Region code, and the region reached is the region derived directly.
C13_EveryBarangayWalksUp ==
    (level # NotClassified /\ BarangayShaped(item.code)) => WalksUpThreeLevels

\* C13 as amended: the same for the barangay-shaped codes whose region,
\* province and city/municipality digit groups are each not 00.
C13_SetGroupsWalkUp ==
    (level # NotClassified /\ BarangayShaped(item.code) /\ GroupsSet(item.code))
        => WalksUpThreeLevels

\* a barangay code with all groups set has been walked up
C13_Witness ==
    /\ level # NotClassified
    /\ item.code = <<"1", "1", "0", "1", "1", "0", "0", "1", "1">>
    /\ ancestors.cityMuni = <<"1", "1", "0", "1", "1", "0", "0", "0", "0">>
    /\ ancestors.province = <<"1", "1", "0", "1", "0", "0", "0", "0", "0">>
    /\ ancestors.region = <<"1", "1", "0", "0", "0", "0", "0", "0", "0">>

\* C9: every normalizeCode turns a 10-digit input that begins with 0 into
\* its last nine digits (the leading zero is dropped, not the last digit).
C9_TenDigitDropsLeadingZero ==
    (norm # NotRun /\ TenDigitLeadingZero(raw))
        => \A f \in Normalizers : norm[f] = Str(Tail(raw.s))

\* C10: every normalizeCode returns null or a string of exactly nine
\* decimal digits.
C10_NullOrNineDigits ==
    norm # NotRun => \A f \in Normalizers : norm[f] = Null \/ NineDigits(norm[f])

\* C11: every normalizeCode is idempotent: applied to its own result it
\* returns that result.
C11_NormalizeIdempotent ==
    again # NotRun => \A f \in Normalizers : again[f] = norm[f]

----------------------------------------------------------------------------
(* Parent codes carried through the stages *)

\* an explicit parent code (digits, at most nine) normalized
Normalized(s) == IF s = <<>> THEN <<>> ELSE padTruncate(s)

\* C3: every stage that emits a barangay-shaped record carries its explicit
\* city_code and municipality_code through, normalized and otherwise
\* unchanged; both stay unset only when the record supplies neither.
C3_ExplicitParentCarried ==
    (level # NotClassified /\ isBarangayPattern(item.code))
        => \A f \in Stages :
              out[f].kind = "barangay"
                  => /\ out[f].city_code = Normalized(item.city_code)
                     /\ out[f].municipality_code = Normalized(item.municipality_code)

----------------------------------------------------------------------------
(* Merge and duplicates *)

recordsWithCode(list, code) == SelectSeq(list, LAMBDA it : fixCode(it) = code)

Elems(list) == {list[i] : i \in 1..Len(list)}

\* C4: fixMissingRecords keeps, for every normalized code of the complete
\* file, exactly the records of the complete file with that code, unchanged
\* and in place; what it adds comes from the source file and has a code the
\* complete file lacks.
C4_BaselinePreferred ==
    fixOut.run =>
        /\ SubSeq(fixOut.fixedData, 1, Len(baseline)) = baseline
        /\ \A c \in {fixCode(baseline[i]) : i \in 1..Len(baseline)} \ {<<>>} :
              recordsWithCode(fixOut.fixedData, c) = recordsWithCode(baseline, c)
        /\ Elems(fixOut.fixedData) \subseteq Elems(baseline) \cup Elems(batch)

\* baseline {A}, supplement {A', B} gives {A, B}
C4_Witness ==
    /\ fixOut.run /\ Len(baseline) = 1 /\ Len(batch) = 2
    /\ fixCode(batch[1]) = fixCode(baseline[1]) /\ batch[1] # baseline[1]
    /\ fixCode(batch[2]) \notin {<<>>, fixCode(baseline[1])}
    /\ fixOut.fixedData = <<baseline[1], batch[2]>>

\* the records of the batch cleanData tests for duplicates: those with a
\* code and a name
cleanCode(it) == cleanData_record(it).code

Candidates == {i \in 1..Len(batch) :
                  cleanCode(batch[i]) # <<>> /\ batch[i].name # <<>>}

Max(S) == CHOOSE x \in S : \A y \in S : y <= x

sameCleanCode(c) == {i \in Candidates : cleanCode(batch[i]) = c}

sameFixCode(c) == {i \in 1..Len(batch) : fixCode(batch[i]) = c}

\* every occurrence of a code after its first is in duplicates
DuplicatesCounted ==
    Len(cleanOut.duplicates)
        = Cardinality(Candidates)
            - Cardinality({cleanCode(batch[i]) : i \in Candidates})

\* C5: of the occurrences of one code in a batch the last one
\* survives, in cleanData and in the supplement of fixMissingRecords, and
\* cleanData counts every extra occurrence as a duplicate.
C5_LastSeenWins ==
    /\ cleanOut.run =>
          /\ \A k \in 1..Len(cleanOut.allData) :
                cleanOut.allData[k]
                    = cleanData_record(batch[Max(sameCleanCode(cleanOut.allData[k].code))])
          /\ DuplicatesCounted
    /\ fixOut.run =>
          \A k \in 1..Len(fixOut.missingRecords) :
              fixOut.missingRecords[k]
                  = batch[Max(sameFixCode(fixCode(fixOut.missingRecords[k])))]

\* C14: cleanData run on its own output returns the same records, each in
\* the same list (a city again a city) and with the same field values.
C14_CleanDataIdempotent ==
    recleanOut.run => Elems(recleanOut.allData) = Elems(cleanOut.allData)

\* the code-to-record entries of a merged file (records that have a code)
Entries(list) ==
    {<<fixCode(list[i]), list[i]>> :
        i \in {j \in 1..Len(list) : fixCode(list[j]) # <<>>}}

CodesOfFile(list) == {fixCode(list[i]) : i \in 1..Len(list)} \ {<<>>}

\* C17: when no normalized code occurs in both files, merging with either
\* file as the baseline and the other as the supplement gives the same
\* code-to-record entries, also when a file repeats a code.
C17_MergeCommutesOnDisjoint ==
    (/\ fixOut.run /\ swapOut.run
     /\ CodesOfFile(baseline) \cap CodesOfFile(batch) = {})
        => Entries(fixOut.fixedData) = Entries(swapOut.fixedData)

----------------------------------------------------------------------------
(* Malformed records *)

\* a record without a code, without a name, with a name that is not a
\* string, or an array element that is null
Malformed(it) ==
    \/ it.malformed # ""
    \/ it.code = <<>> /\ it.psgc10 = <<>> /\ it.CorrespondenceCode = <<>>
    \/ it.name = <<>>

WellFormedRest == SelectSeq(batch, LAMBDA it : ~Malformed(it))

\* C16: a batch with a single malformed record is processed to completion
\* by cleanData, fixMissingRecords and importData, and what each produces
\* is what it produces for the batch without that record.
C16_MalformedRecordExcluded ==
    Cardinality({i \in 1..Len(batch) : Malformed(batch[i])}) = 1 =>
        /\ cleanOut.run =>
              /\ ~cleanOut.aborted
              /\ cleanOut.allData = cleanData(WellFormedRest).allData
        /\ fixOut.run =>
              /\ ~fixOut.aborted
              /\ fixOut.fixedData
                    = fixMissingRecords(baseline, WellFormedRest).fixedData
        /\ runs = 1 =>
              /\ ~crashed
              /\ db = importData(EmptyStore, WellFormedRest).store

----------------------------------------------------------------------------
(* Counts against the standards *)

\* C15: validateCount reports exactly one outcome: exact match iff the count
\* equals the standard's exact value, otherwise within tolerance iff the
\* count lies between min and max, otherwise out of range; the difference
\* reported is the count minus the exact value; only an exact match
\* returns no issue, and every call returns.
C15_ValidateCountOutcome ==
    report # NoReport =>
        LET standard == PSA_STANDARDS[counted.name]
            actual == counted.actual
            inRange == standard.min <= actual /\ actual <= standard.max
        IN  /\ report.outcome \in {"exact", "within", "outside"}
            /\ report.outcome = "exact" <=> actual = standard.exact
            /\ report.outcome = "within" <=> (actual # standard.exact /\ inRange)
            /\ report.outcome = "outside" <=> (actual # standard.exact /\ ~inRange)
            /\ report.diff = actual - standard.exact
            /\ report.issue <=> actual # standard.exact
            /\ report.name = counted.name

\* 490 barangays against 42011: out of range, difference -41521
C15_Witness ==
    /\ counted = [name |-> "barangays", actual |-> 490]
    /\ report.outcome = "outside" /\ report.diff = -41521 /\ report.issue

----------------------------------------------------------------------------
(* Store properties after importData *)

\* C2: every stored barangay has exactly one of city_code and
\* municipality_code set, and the one set is the first six digits of the
\* barangay's code followed by 000.
C2_BarangayHasOneParent ==
    \A b \in db.barangays :
        /\ (b.city_code = <<>>) # (b.municipality_code = <<>>)
        /\ b.city_code # <<>> => b.city_code = cityMuniOf(b.code)
        /\ b.municipality_code # <<>> => b.municipality_code = cityMuniOf(b.code)

\* C6: importData skips no record because its region or province is not
\* in the store: the missing ancestor is inserted as a placeholder and the
\* record is stored.
C6_MissingAncestorRepaired ==
    /\ skipped = {}
    /\ \A i \in 1..Len(imported) :
          LET d == importData_classify(imported[i])
          IN  (d.kind \in {"province", "city", "municipality", "barangay"}
                  /\ d \notin failed)
                  => /\ exists(db.regions, d.region_code)
                     /\ d.kind # "province" => exists(db.provinces, d.province_code)
                     /\ \/ d.kind = "province" /\ exists(db.provinces, d.code)
                        \/ d.kind = "city" /\ exists(db.cities, d.code)
                        \/ d.kind = "municipality" /\ exists(db.municipalities, d.code)
                        \/ d.kind = "barangay" /\ exists(db.barangays, d.code)

\* the tables of the store
Tables == DOMAIN EmptyStore

\* the records of the last run that were classified, not skipped and not
\* rejected, and that no later record of the run repeats
LastAccepted ==
    {i \in 1..Len(imported) :
        LET d == importData_classify(imported[i])
        IN  /\ d.kind \in {"region", "province", "city", "municipality", "barangay"}
            /\ d \notin skipped /\ d \notin failed
            /\ \A j \in (i + 1)..Len(imported) :
                  importData_classify(imported[j]).code # d.code}

\* C18 (first part): an importData run removes no code from a table.
C18_NoCodeDisappears ==
    [][\A t \in Tables : codesOf(db[t]) \subseteq codesOf(db'[t])]_vars

\* C18 (second part): each table holds at most one row per code.
C18_OneRowPerCode ==
    \A t \in Tables : \A r1, r2 \in db[t] : r1.code = r2.code => r1 = r2

\* C18: after an importData run, every row stored under a code carries the
\* name of the most recently imported record with that code, whichever
\* table holds the row.
C18_LastImportWins ==
    ~crashed =>
        \A i \in LastAccepted :
            LET d == importData_classify(imported[i])
            IN  \A t \in Tables : \A r \in db[t] :
                    r.code = d.code => r.name = d.name

----------------------------------------------------------------------------
(* API properties *)

\* the routes with an entity code in the path, and the table the code names
CodeRoutes == ByCodeRoutes \cup ChildrenRoutes \cup AncestorRoutes

routeOf(handler) == CHOOSE r \in CodeRoutes : r.handler = handler

namedTable(route) == IF "parent" \in DOMAIN route THEN route.parent ELSE route.table

\* C19: a request to an endpoint with an entity code in its path is
\* answered 404 with a body {error, message} when the store holds no
\* entity with that code.
C19_UnknownCodeIs404 ==
    (/\ response # NoResponse
     /\ request.handler \in {r.handler : r \in CodeRoutes}
     /\ ~exists(db[namedTable(routeOf(request.handler))], request.code))
        => /\ response.status = 404
           /\ DOMAIN response.body = {"error", "message"}

\* C20: a successful search returns at most limit entries of every entity
\* type (at most 20 when limit is absent), and counts.total is the sum of
\* the lengths of the returned lists.
C20_LimitBoundsEveryType ==
    (request.handler = "searchAll" /\ response.status = 200
        /\ (request.limit = <<>> \/ parseInt(request.limit).n >= 1))
        => /\ \A t \in DOMAIN response.body.data :
                Len(response.body.data[t])
                    <= IF request.limit = <<>> THEN SearchDefaultLimit
                       ELSE parseInt(request.limit).n
           /\ response.body.counts["total"]
                 = sumOfLengths(response.body.data, DOMAIN response.body.data)

----------------------------------------------------------------------------
(* Server properties *)

\* a limit value that is a positive integer
isPositiveInteger(text) ==
    text # <<>> /\ allDigits(text) /\ digitsValue(text) >= 1

\* C21: a barangay list endpoint returns at most limit rows, and at most
\* 1000 rows when limit is absent, zero, negative or not a number.
C21_BarangayListBounded ==
    listing.sent =>
        listing.count <= IF isPositiveInteger(listing.limit)
                         THEN digitsValue(listing.limit)
                         ELSE ListDefaultLimit

C23_ApiReadOnly == [][db' = db]_vars

\* C23 witness: a request that found its entity was answered from a
\* database holding rows.
C23_Witness ==
    /\ request.handler = "getProvinceByCode" /\ response.status = 200
    /\ db.provinces # {} /\ db.regions # {}

----------------------------------------------------------------------------
(* Store properties after importData, continued *)

\* the barangay records of the last run that supply no parent, were
\* stored, and are not repeated later in the run
Unparented ==
    {i \in LastAccepted :
        LET d == importData_classify(imported[i])
        IN  d.kind = "barangay" /\ d.city_code = <<>> /\ d.municipality_code = <<>>}

\* first 6 digits + 000
prefixOf(code) == SubSeq(code, 1, 6) \o <<"0", "0", "0">>

\* C24: a barangay stored from a record without city_code and
\* municipality_code has city_code = prefix when the prefix is a stored
\* city (also when it is a stored municipality too), otherwise
\* municipality_code = prefix when the prefix is a stored municipality,
\* and never both.
C24_CityFirstThenMunicipality ==
    ~crashed =>
      \A i \in Unparented :
        LET code == importData_classify(imported[i]).code
            prefix == prefixOf(code)
        IN  \A r \in db.barangays :
              r.code = code =>
                /\ ~(r.city_code # <<>> /\ r.municipality_code # <<>>)
                /\ exists(db.cities, prefix)
                      => r.city_code = prefix /\ r.municipality_code = <<>>
                /\ (~exists(db.cities, prefix) /\ exists(db.municipalities, prefix))
                      => r.municipality_code = prefix /\ r.city_code = <<>>

\* C24 witness: 042111001 imported without parents while 042111000 is
\* stored in municipalities only, and it carries municipality_code
\* 042111000.
C24_Witness ==
    /\ ~crashed
    /\ \E i \in Unparented : importData_classify(imported[i]).code = BayBrgy
    /\ exists(db.municipalities, Bay) /\ ~exists(db.cities, Bay)
    /\ \E r \in db.barangays :
          r.code = BayBrgy /\ r.municipality_code = Bay /\ r.city_code = <<>>

----------------------------------------------------------------------------
(* Batch properties, continued *)

\* C25: every record of the batch handed to cleanData ends in the cleaned
\* output, in the duplicates list or in the invalid list: the three
\* together have as many entries as the batch has records.
C25_EveryRecordAccounted ==
    (cleanOut.run /\ ~cleanOut.aborted) =>
        Len(cleanOut.allData) + Len(cleanOut.duplicates) + Len(cleanOut.invalid)
            = Len(batch)

----------------------------------------------------------------------------
(* Store properties after importData: writes and their parents *)

\* the parent references of a record importData hands to an insert that are
\* not in the store; no row is ever deleted, so a parent missing after the
\* run was missing when the write was issued
unresolvedParents(store, d) ==
    {c \in {d.region_code} : ~fkHolds(store.regions, c)}
        \cup {c \in {d.province_code} : ~fkHolds(store.provinces, c)}
        \cup {c \in {d.city_code} : ~fkHolds(store.cities, c)}
        \cup {c \in {d.municipality_code} : ~fkHolds(store.municipalities, c)}

\* C26: importData issues no write whose parent reference is unresolved:
\* no insert of a run is rejected while a row its record references through
\* region_code, province_code, city_code or municipality_code is missing.
C26_ParentsBeforeChildren ==
    \A d \in failed : unresolvedParents(db, d) = {}

----------------------------------------------------------------------------
(* Store properties after importData: the shape of the stored codes *)

\* validateDatabase, PSGC pattern validation: the codes of each table that
\* its query selects as invalid
invalidCodes(store) ==
    [regions |-> {c \in codesOf(store.regions) : ~isRegionPattern(c)},
     provinces |-> {c \in codesOf(store.provinces) : ~isProvincePattern(c)},
     cities |-> {c \in codesOf(store.cities) : ~isCityMuniPattern(c)},
     municipalities |->
        {c \in codesOf(store.municipalities) : ~isCityMuniPattern(c)},
     barangays |-> {c \in codesOf(store.barangays) : ~isBarangayPattern(c)}]

\* C27: after any importData run every code stored in regions has the
\* shape XX0000000, in provinces XXYY00000, in cities and municipalities
\* XXYYZZ000, and in barangays nine digits not ending in 000.
C27_StoredCodesHaveShape ==
    \A t \in DOMAIN invalidCodes(db) : invalidCodes(db)[t] = {}

\* C28: after any sequence of importData runs no code is stored both in
\* the cities table and in the municipalities table.
C28_CityOrMunicipality ==
    codesOf(db.cities) \cap codesOf(db.municipalities) = {}

\* C29: a run of importData on the batch of the run before it leaves the
\* store as that run left it and reports the same skipped and rejected
\* records: it adds no row the first run skipped and changes no parent link.
C29_SecondRunChangesNothing ==
    [][(runs >= 1 /\ runs' = runs + 1 /\ imported' = imported /\ ~crashed)
          => (db' = db /\ skipped' = skipped /\ failed' = failed)]_vars

----------------------------------------------------------------------------
(* Classifier properties, continued *)

\* C30: validateDataFile, diagnose and importData assign the same level to
\* every record, in particular the same City-versus-Municipality decision.
C30_SameLevelInFileAndDatabase ==
    level # NotClassified
        => /\ level["validateDataFile"] = level["importData"]
           /\ level["diagnose"] = level["importData"]

====
